---- MODULE Spec2Model ----
(***************************************************************************)
(* Model of scripts/record_all.py: the terminal-output-to-raster pipeline. *)
(*                                                                         *)
(*   - process_terminal_sequences / render_to_image / parse_ansi_text:     *)
(*     the text side, stepped one scan-loop iteration per action (Spec).   *)
(*   - capture_frames_from_pty: the capture loop over a pseudo-terminal    *)
(*     and a child process (CaptureSpec).                                  *)
(*                                                                         *)
(* A text is a sequence of one-character strings; ESC, CR and LF stand for *)
(* \x1b, \r and \n.                                                        *)
(***************************************************************************)
EXTENDS Integers, Sequences, FiniteSets, TLC

VARIABLES
    \* ---- text side (render_to_image) ----
    toks,           \* the fragments the input text is made of
    text,           \* the argument of process_terminal_sequences
    i,              \* scan index (1-based)
    lines,          \* completed lines
    current_line,   \* in-progress line
    tpc,            \* position in render_to_image
    out_text,       \* the text after process / clean
    final_lines,    \* lines after split and trailing-blank trim
    segments,       \* parse_ansi_text of every final line
    \* ---- capture side (capture_frames_from_pty) ----
    pc,             \* position in capture_frames_from_pty
    master_open,    \* master_fd is open
    slave_open,     \* the parent's slave_fd is open
    child,          \* proc: "none", "running", "exited" (not yet reaped), "reaped"
    child_tty,      \* the child side still holds the follower side open
    pending,        \* bytes written to the terminal and not yet read
    written,        \* number of bytes the child side has written
    output_buffer,  \* decoded output accumulated so far
    frames,         \* the snapshots recorded
    now,            \* time.time() - start_time
    last_frame_time,
    readable,       \* result of the last select
    exc,            \* an exception is propagating to the caller
    duration,       \* argument duration
    frame_interval, \* 1.0 / fps
    how,            \* which exit of the sampling loop was taken
    exited_in_sampling, \* the child exited while the sampling loop ran
    term_sent,      \* proc.terminate() was called
    \* ---- batch side (main, record_animated) ----
    rpc,            \* position in record_animated
    fixed_height,   \* argument fixed_height (NoHeight when not supplied)
    images,         \* the canvases rendered from frames
    target_height,
    max_width,
    normalized,     \* canvases at the common size
    final_frames,   \* the canvases handed to the encoder
    best_idx,       \* palette reference frame (0-based)
    warning,        \* the warning record_animated printed
    saved,          \* the GIF was written
    \* ---- one call of get_256_color ----
    cpc,            \* position of the call
    color_idx,      \* argument idx
    color_out       \* the tuple returned (<<>> before the return and on a raise)

textVars == <<toks, text, i, lines, current_line, tpc, out_text, final_lines, segments>>
capVars == <<pc, master_open, slave_open, child, child_tty, pending, written,
             output_buffer, frames, now, last_frame_time, readable, exc,
             duration, frame_interval, how, exited_in_sampling, term_sent>>
gifVars == <<rpc, fixed_height, images, target_height, max_width, normalized,
             final_frames, best_idx, warning, saved>>
colVars == <<cpc, color_idx, color_out>>
vars == <<textVars, capVars, gifVars, colVars>>

----------------------------------------------------------------------------
(* Characters and small helpers *)

ESC == "ESC"
CR == "CR"
LF == "LF"
SP == " "

Digits == {"0", "1", "2", "3", "4", "5", "6", "7", "8", "9"}
ParamChars == Digits \cup {";"}
SkipCodes == {"B", "C", "D", "K", "G"}
Whitespace == {SP, CR, LF}

DigitVal(c) ==
    CASE c = "0" -> 0 [] c = "1" -> 1 [] c = "2" -> 2 [] c = "3" -> 3
      [] c = "4" -> 4 [] c = "5" -> 5 [] c = "6" -> 6 [] c = "7" -> 7
      [] c = "8" -> 8 [] c = "9" -> 9

\* int(s) succeeds exactly on a non-empty run of digits (the only strings
\* the callers can hand it are made of digits and ';').
IsInt(s) == s # <<>> /\ \A k \in DOMAIN s : s[k] \in Digits

RECURSIVE PyInt(_)
PyInt(s) ==
    IF s = <<>> THEN 0
    ELSE PyInt(SubSeq(s, 1, Len(s) - 1)) * 10 + DigitVal(s[Len(s)])

RECURSIVE Flatten(_)
Flatten(ss) == IF ss = <<>> THEN <<>> ELSE Head(ss) \o Flatten(Tail(ss))

\* '\n'.join(ls)
RECURSIVE Join(_)
Join(ls) ==
    IF ls = <<>> THEN <<>>
    ELSE IF Len(ls) = 1 THEN ls[1]
    ELSE ls[1] \o <<LF>> \o Join(Tail(ls))

\* s.strip() is empty
IsBlank(s) == \A k \in DOMAIN s : s[k] \in Whitespace

----------------------------------------------------------------------------
(* process_terminal_sequences: one iteration of the scan loop *)

\* first index j >= from whose character is not a parameter character
RECURSIVE ParamEnd(_, _)
ParamEnd(t, from) ==
    IF from <= Len(t) /\ t[from] \in ParamChars THEN ParamEnd(t, from + 1) ELSE from

IsCsi(t, p) == t[p] = ESC /\ p + 1 <= Len(t) /\ t[p + 1] = "["

\* which branch of the loop body the character at p takes
Branch(t, p) ==
    IF IsCsi(t, p) THEN
        LET j == ParamEnd(t, p + 2) IN
        IF j <= Len(t) THEN
            CASE t[j] = "A" -> "CursorUp"
              [] t[j] = "J" -> "EraseDisplay"
              [] t[j] = "H" -> "CursorHome"
              [] t[j] = "m" -> "Sgr"
              [] t[j] \in SkipCodes -> "Skip"
              [] OTHER -> "Unknown"
        ELSE "Malformed"
    ELSE IF t[p] = CR THEN
        (IF p + 1 <= Len(t) /\ t[p + 1] = LF THEN "CRLF" ELSE "CR")
    ELSE IF t[p] = LF THEN "LF"
    ELSE "Char"

\* (mutation of CursorUpLines: the lines are removed from the front)
CursorUpLinesFront(ls, n) ==
    IF Len(ls) >= n
    THEN (IF n = 0 THEN <<>> ELSE SubSeq(ls, n + 1, Len(ls)))
    ELSE <<>>

\* lines[:-n] if len(lines) >= n else []   (Python: ls[:-0] is ls[:0], empty)
CursorUpLines(ls, n) ==
    IF Len(ls) >= n
    THEN (IF n = 0 THEN <<>> ELSE SubSeq(ls, 1, Len(ls) - n))
    ELSE <<>>

\* the line a bare carriage return leaves in progress
CarriageReturnLine(cur) == <<>>

ScanState(p, ls, cur, r) == [i |-> p, lines |-> ls, cur |-> cur, raised |-> r]

\* (mutation of ScanStep: a sequence with no terminator emits its ESC and
\* the index stays where it is)
ScanStepStuck(t, s) ==
    LET p == s.i
        j == ParamEnd(t, p + 2)
        param_str == SubSeq(t, p + 2, j - 1)
        b == Branch(t, p)
    IN  CASE b = "CursorUp" ->
              LET ls == IF s.cur # <<>> THEN Append(s.lines, s.cur) ELSE s.lines IN
              IF param_str # <<>> /\ ~IsInt(param_str)
              THEN ScanState(p, ls, <<>>, TRUE)      \* int() raises ValueError
              ELSE LET n == IF param_str # <<>> THEN PyInt(param_str) ELSE 1
                   IN  ScanState(j + 1, CursorUpLines(ls, n), <<>>, FALSE)
          [] b = "EraseDisplay" ->
              IF param_str = <<"2">>
              THEN ScanState(j + 1, <<>>, <<>>, FALSE)
              ELSE ScanState(j + 1, s.lines, s.cur, FALSE)
          [] b = "CursorHome" -> ScanState(j + 1, s.lines, s.cur, FALSE)
          [] b = "Sgr" -> ScanState(j + 1, s.lines, s.cur \o SubSeq(t, p, j), FALSE)
          [] b = "Skip" -> ScanState(j + 1, s.lines, s.cur, FALSE)
          [] b = "Unknown" -> ScanState(j + 1, s.lines, s.cur \o SubSeq(t, p, j), FALSE)
          [] b = "Malformed" -> ScanState(p, s.lines, s.cur \o <<t[p]>>, FALSE)
          [] b = "CRLF" -> ScanState(p + 2, Append(s.lines, s.cur), <<>>, FALSE)
          [] b = "CR" -> ScanState(p + 1, s.lines, CarriageReturnLine(s.cur), FALSE)
          [] b = "LF" -> ScanState(p + 1, Append(s.lines, s.cur), <<>>, FALSE)
          [] b = "Char" -> ScanState(p + 1, s.lines, s.cur \o <<t[p]>>, FALSE)

\* one iteration of the while loop of process_terminal_sequences
ScanStep(t, s) ==
    LET p == s.i
        j == ParamEnd(t, p + 2)
        param_str == SubSeq(t, p + 2, j - 1)
        b == Branch(t, p)
    IN  CASE b = "CursorUp" ->
              LET ls == IF s.cur # <<>> THEN Append(s.lines, s.cur) ELSE s.lines IN
              IF param_str # <<>> /\ ~IsInt(param_str)
              THEN ScanState(p, ls, <<>>, TRUE)      \* int() raises ValueError
              ELSE LET n == IF param_str # <<>> THEN PyInt(param_str) ELSE 1
                   IN  ScanState(j + 1, CursorUpLines(ls, n), <<>>, FALSE)
          [] b = "EraseDisplay" ->
              IF param_str = <<"2">>
              THEN ScanState(j + 1, <<>>, <<>>, FALSE)
              ELSE ScanState(j + 1, s.lines, s.cur, FALSE)
          [] b = "CursorHome" -> ScanState(j + 1, s.lines, s.cur, FALSE)
          [] b = "Sgr" -> ScanState(j + 1, s.lines, s.cur \o SubSeq(t, p, j), FALSE)
          [] b = "Skip" -> ScanState(j + 1, s.lines, s.cur, FALSE)
          [] b = "Unknown" -> ScanState(j + 1, s.lines, s.cur \o SubSeq(t, p, j), FALSE)
          [] b = "Malformed" -> ScanState(p + 1, s.lines, s.cur, FALSE)
          [] b = "CRLF" -> ScanState(p + 2, Append(s.lines, s.cur), <<>>, FALSE)
          [] b = "CR" -> ScanState(p + 1, s.lines, CarriageReturnLine(s.cur), FALSE)
          [] b = "LF" -> ScanState(p + 1, Append(s.lines, s.cur), <<>>, FALSE)
          [] b = "Char" -> ScanState(p + 1, s.lines, s.cur \o <<t[p]>>, FALSE)

\* after the loop: append the in-progress line if non-empty, join with '\n'
FinishLines(ls, cur) == IF cur # <<>> THEN Append(ls, cur) ELSE ls

RECURSIVE ScanAll(_, _)
ScanAll(t, s) ==
    IF s.raised \/ s.i > Len(t) THEN s ELSE ScanAll(t, ScanStep(t, s))

\* the whole function: [raised, out]
ProcessTerminalSequences(t) ==
    LET s == ScanAll(t, ScanState(1, <<>>, <<>>, FALSE))
    IN  [raised |-> s.raised,
         out |-> IF s.raised THEN <<>> ELSE Join(FinishLines(s.lines, s.cur))]

----------------------------------------------------------------------------
(* render_to_image: the six re.sub clean-ups, split and trailing trim *)

\* first index >= from whose character is not a digit
RECURSIVE DigitsEnd(_, _)
DigitsEnd(t, from) ==
    IF from <= Len(t) /\ t[from] \in Digits THEN DigitsEnd(t, from + 1) ELSE from

HasAt(t, p, c) == p <= Len(t) /\ t[p] = c
HasIn(t, p, S) == p <= Len(t) /\ t[p] \in S

\* Index just after the match of the pattern at p, 0 when it does not match
\* there.  Each pattern matches in at most one way at a position.
MatchEnd(pat, t, p) ==
    IF ~(HasAt(t, p, ESC) /\ HasAt(t, p + 1, "[")) THEN 0
    ELSE LET d == DigitsEnd(t, p + 2) IN
      CASE pat = "cursor_visibility" ->       \* \x1b\[\?25[lh]
             IF HasAt(t, p + 2, "?") /\ HasAt(t, p + 3, "2") /\ HasAt(t, p + 4, "5")
                /\ HasIn(t, p + 5, {"l", "h"})
             THEN p + 6 ELSE 0
        [] pat = "cursor_erase" ->            \* \x1b\[\d*[ABCDJK]
             IF HasIn(t, d, {"A", "B", "C", "D", "J", "K"}) THEN d + 1 ELSE 0
        [] pat = "clear_screen" ->            \* \x1b\[2J
             IF HasAt(t, p + 2, "2") /\ HasAt(t, p + 3, "J") THEN p + 4 ELSE 0
        [] pat = "cursor_home" ->             \* \x1b\[H
             IF HasAt(t, p + 2, "H") THEN p + 3 ELSE 0
        [] pat = "cursor_position" ->         \* \x1b\[\d+;\d+H
             LET d2 == DigitsEnd(t, d + 1) IN
             IF d > p + 2 /\ HasAt(t, d, ";") /\ d2 > d + 1 /\ HasAt(t, d2, "H")
             THEN d2 + 1 ELSE 0
        [] pat = "save_restore" ->            \* \x1b\[\d*[su]
             IF HasIn(t, d, {"s", "u"}) THEN d + 1 ELSE 0
        [] pat = "sgr" ->                     \* \x1b\[[0-9;]*m
             LET e == ParamEnd(t, p + 2) IN
             IF HasAt(t, e, "m") THEN e + 1 ELSE 0

\* re.sub(pat, '', t): leftmost, non-overlapping matches removed
RECURSIVE ReSubFrom(_, _, _)
ReSubFrom(pat, t, p) ==
    IF p > Len(t) THEN <<>>
    ELSE LET e == MatchEnd(pat, t, p) IN
         IF e > 0 THEN ReSubFrom(pat, t, e)
         ELSE <<t[p]>> \o ReSubFrom(pat, t, p + 1)

ReSub(pat, t) == ReSubFrom(pat, t, 1)

CleanControl(t) ==
    ReSub("save_restore",
      ReSub("cursor_position",
        ReSub("cursor_home",
          ReSub("clear_screen",
            ReSub("cursor_erase",
              ReSub("cursor_visibility", t))))))

\* t.split('\n'): always at least one (possibly empty) line
RECURSIVE SplitFrom(_, _, _)
SplitFrom(t, p, cur) ==
    IF p > Len(t) THEN <<cur>>
    ELSE IF t[p] = LF THEN <<cur>> \o SplitFrom(t, p + 1, <<>>)
    ELSE SplitFrom(t, p + 1, Append(cur, t[p]))

SplitLines(t) == SplitFrom(t, 1, <<>>)

\* while lines and not lines[-1].strip(): lines.pop()
RECURSIVE TrimTrailingBlank(_)
TrimTrailingBlank(ls) ==
    IF ls # <<>> /\ IsBlank(ls[Len(ls)])
    THEN TrimTrailingBlank(SubSeq(ls, 1, Len(ls) - 1))
    ELSE ls


----------------------------------------------------------------------------
(* get_256_color and parse_ansi_text *)

DefaultFg == <<229, 229, 229>>
DefaultBg == <<30, 30, 46>>

Colors16 ==
    << <<0, 0, 0>>, <<205, 49, 49>>, <<13, 188, 121>>, <<229, 229, 16>>,
       <<36, 114, 200>>, <<188, 63, 188>>, <<17, 168, 205>>, <<229, 229, 229>>,
       <<102, 102, 102>>, <<241, 76, 76>>, <<35, 209, 139>>, <<245, 245, 67>>,
       <<59, 142, 234>>, <<214, 112, 214>>, <<41, 184, 219>>, <<255, 255, 255>> >>

\* colors[idx] raises IndexError below -len(colors)
IndexRaises(idx) == idx < -16

\* (mutation of get_256_color: the cube branch takes index 232 too)
get_256_color_wide_cube(idx) ==
    IF idx < 16 THEN Colors16[(IF idx < 0 THEN idx + 16 ELSE idx) + 1]
    ELSE IF idx <= 232 THEN
        LET k == idx - 16 IN <<(k \div 36) * 51, ((k \div 6) % 6) * 51, (k % 6) * 51>>
    ELSE LET gray == (idx - 232) * 10 + 8 IN <<gray, gray, gray>>

\* no range check: a negative idx indexes the list from its end, and any
\* idx from 232 up takes the grayscale branch
get_256_color(idx) ==
    IF idx < 16 THEN Colors16[(IF idx < 0 THEN idx + 16 ELSE idx) + 1]
    ELSE IF idx < 232 THEN
        LET k == idx - 16 IN <<(k \div 36) * 51, ((k \div 6) % 6) * 51, (k % 6) * 51>>
    ELSE LET gray == (idx - 232) * 10 + 8 IN <<gray, gray, gray>>

\* basic (30..37) and bright (90..97) foreground tables
BasicFg(code) == Colors16[code - 30 + 1]
BrightFg(code) == Colors16[code - 90 + 8 + 1]

\* int(c * 0.6) for a channel c >= 0
DimChannel(c) == (c * 6) \div 10

DefaultStyle ==
    [fg |-> DefaultFg, bg |-> DefaultBg, bold |-> FALSE, dim |-> FALSE,
     italic |-> FALSE, underline |-> FALSE, raised |-> FALSE]

\* match.group(1).split(';')
RECURSIVE SplitSemi(_, _, _)
SplitSemi(t, p, cur) ==
    IF p > Len(t) THEN <<cur>>
    ELSE IF t[p] = ";" THEN <<cur>> \o SplitSemi(t, p + 1, <<>>)
    ELSE SplitSemi(t, p + 1, Append(cur, t[p]))

SgrCodes(group) == IF group # <<>> THEN SplitSemi(group, 1, <<>>) ELSE << <<"0">> >>

\* (mutation of ApplyCode: code 0 leaves the style as it is)
ApplyCodeNoReset(code, st) ==
    CASE code = 1 -> [st EXCEPT !.bold = TRUE]
      [] code = 2 -> [st EXCEPT !.dim = TRUE]
      [] code = 3 -> [st EXCEPT !.italic = TRUE]
      [] code = 4 -> [st EXCEPT !.underline = TRUE]
      [] code = 7 -> [st EXCEPT !.fg = st.bg, !.bg = st.fg]
      [] code >= 30 /\ code <= 37 -> [st EXCEPT !.fg = BasicFg(code)]
      [] code >= 90 /\ code <= 97 -> [st EXCEPT !.fg = BrightFg(code)]
      [] OTHER -> st

\* (mutation of ApplyCode: a repeated code 2 scales the stored foreground)
ApplyCodeDimCompounds(code, st) ==
    CASE code = 0 -> [DefaultStyle EXCEPT !.raised = st.raised]
      [] code = 1 -> [st EXCEPT !.bold = TRUE]
      [] code = 2 -> [st EXCEPT !.dim = TRUE,
                                !.fg = IF st.dim
                                       THEN <<DimChannel(st.fg[1]), DimChannel(st.fg[2]),
                                              DimChannel(st.fg[3])>>
                                       ELSE st.fg]
      [] code = 3 -> [st EXCEPT !.italic = TRUE]
      [] code = 4 -> [st EXCEPT !.underline = TRUE]
      [] code = 7 -> [st EXCEPT !.fg = st.bg, !.bg = st.fg]
      [] code >= 30 /\ code <= 37 -> [st EXCEPT !.fg = BasicFg(code)]
      [] code >= 90 /\ code <= 97 -> [st EXCEPT !.fg = BrightFg(code)]
      [] OTHER -> st

\* the effect of one stand-alone code on the style
ApplyCode(code, st) ==
    CASE code = 0 -> [DefaultStyle EXCEPT !.raised = st.raised]
      [] code = 1 -> [st EXCEPT !.bold = TRUE]
      [] code = 2 -> [st EXCEPT !.dim = TRUE]
      [] code = 3 -> [st EXCEPT !.italic = TRUE]
      [] code = 4 -> [st EXCEPT !.underline = TRUE]
      [] code = 7 -> [st EXCEPT !.fg = st.bg, !.bg = st.fg]
      [] code >= 30 /\ code <= 37 -> [st EXCEPT !.fg = BasicFg(code)]
      [] code >= 90 /\ code <= 97 -> [st EXCEPT !.fg = BrightFg(code)]
      [] OTHER -> st

\* (mutation of ApplyCodes: the sub-parameters of 38 are not skipped)
RECURSIVE ApplyCodesNoSkip(_, _, _)
ApplyCodesNoSkip(codes, k, st) ==
    IF k > Len(codes) \/ st.raised THEN st
    ELSE IF ~IsInt(codes[k]) THEN ApplyCodesNoSkip(codes, k + 1, st)
    ELSE
      LET code == PyInt(codes[k])
          n == Len(codes)
          rgbForm == k + 1 <= n /\ codes[k + 1] = <<"2">> /\ k + 4 <= n
          idxForm == k + 1 <= n /\ codes[k + 1] = <<"5">> /\ k + 2 <= n
          rgbOk == IsInt(codes[k + 2]) /\ IsInt(codes[k + 3]) /\ IsInt(codes[k + 4])
          rgb == <<PyInt(codes[k + 2]), PyInt(codes[k + 3]), PyInt(codes[k + 4])>>
      IN
      IF code = 38 /\ rgbForm /\ rgbOk
      THEN ApplyCodesNoSkip(codes, k + 1, [st EXCEPT !.fg = rgb])
      ELSE IF code = 38 /\ idxForm /\ IsInt(codes[k + 2])
      THEN ApplyCodesNoSkip(codes, k + 1,
                            [st EXCEPT !.fg = get_256_color(PyInt(codes[k + 2]))])
      ELSE IF code \in {38, 48} THEN ApplyCodesNoSkip(codes, k + 1, st)
      ELSE ApplyCodesNoSkip(codes, k + 1, ApplyCode(code, st))

\* the while loop over codes, from index k (1-based)
RECURSIVE ApplyCodes(_, _, _)
ApplyCodes(codes, k, st) ==
    IF k > Len(codes) \/ st.raised THEN st
    ELSE IF ~IsInt(codes[k]) THEN ApplyCodes(codes, k + 1, st)
    ELSE
      LET code == PyInt(codes[k])
          n == Len(codes)
          rgbForm == k + 1 <= n /\ codes[k + 1] = <<"2">> /\ k + 4 <= n
          idxForm == k + 1 <= n /\ codes[k + 1] = <<"5">> /\ k + 2 <= n
          rgbOk == IsInt(codes[k + 2]) /\ IsInt(codes[k + 3]) /\ IsInt(codes[k + 4])
          rgb == <<PyInt(codes[k + 2]), PyInt(codes[k + 3]), PyInt(codes[k + 4])>>
      IN
      IF code = 38 THEN
          IF rgbForm THEN
              IF rgbOk THEN ApplyCodes(codes, k + 5, [st EXCEPT !.fg = rgb])
              ELSE [st EXCEPT !.raised = TRUE]
          ELSE IF idxForm THEN
              IF IsInt(codes[k + 2])
              THEN ApplyCodes(codes, k + 3,
                              [st EXCEPT !.fg = get_256_color(PyInt(codes[k + 2]))])
              ELSE [st EXCEPT !.raised = TRUE]
          ELSE ApplyCodes(codes, k + 1, st)
      ELSE IF code = 48 THEN
          IF rgbForm THEN
              IF rgbOk THEN ApplyCodes(codes, k + 5, [st EXCEPT !.bg = rgb])
              ELSE [st EXCEPT !.raised = TRUE]
          ELSE ApplyCodes(codes, k + 1, st)
      ELSE ApplyCodes(codes, k + 1, ApplyCode(code, st))

\* (mutation of Segment: the first character of the text is lost)
SegmentTail(seg_text, st) ==
    [text |-> Tail(seg_text), fg |-> st.fg, bg |-> st.bg,
     bold |-> st.bold, italic |-> st.italic, underline |-> st.underline]

\* the tuple appended to segments
Segment(seg_text, st) ==
    [text |-> seg_text,
     fg |-> IF st.dim THEN <<DimChannel(st.fg[1]), DimChannel(st.fg[2]), DimChannel(st.fg[3])>>
            ELSE st.fg,
     bg |-> st.bg, bold |-> st.bold, italic |-> st.italic, underline |-> st.underline]

\* start of the next SGR match at or after p, 0 if none
RECURSIVE FindSgr(_, _)
FindSgr(t, p) ==
    IF p > Len(t) THEN 0
    ELSE IF MatchEnd("sgr", t, p) > 0 THEN p
    ELSE FindSgr(t, p + 1)

\* the style a text starts in
InitialStyle(t) == DefaultStyle

\* (mutation of ParseFrom: the text after the last match is not appended)
RECURSIVE ParseFromNoTail(_, _, _, _)
ParseFromNoTail(t, pos, st, segs) ==
    LET q == FindSgr(t, pos) IN
    IF st.raised THEN [segs |-> segs, st |-> st]
    ELSE IF q = 0 THEN [segs |-> segs, st |-> st]
    ELSE
        LET e == MatchEnd("sgr", t, q)
            segs2 == IF q > pos THEN Append(segs, Segment(SubSeq(t, pos, q - 1), st))
                     ELSE segs
            st2 == ApplyCodes(SgrCodes(SubSeq(t, q + 2, e - 2)), 1, st)
        IN  ParseFromNoTail(t, e, st2, segs2)

\* the finditer loop and the tail: [segs, st]; pos is 1-based
RECURSIVE ParseFrom(_, _, _, _)
ParseFrom(t, pos, st, segs) ==
    LET q == FindSgr(t, pos) IN
    IF st.raised THEN [segs |-> segs, st |-> st]
    ELSE IF q = 0 THEN
        [segs |-> IF pos <= Len(t) THEN Append(segs, Segment(SubSeq(t, pos, Len(t)), st))
                  ELSE segs,
         st |-> st]
    ELSE
        LET e == MatchEnd("sgr", t, q)
            segs2 == IF q > pos THEN Append(segs, Segment(SubSeq(t, pos, q - 1), st))
                     ELSE segs
            st2 == ApplyCodes(SgrCodes(SubSeq(t, q + 2, e - 2)), 1, st)
        IN  ParseFrom(t, e, st2, segs2)

\* parse_ansi_text(t): [segs, st] with st the style state at the end
\* (st.raised: a ValueError left the function)
ParseAnsiText(t) == ParseFrom(t, 1, InitialStyle(t), <<>>)


\* scripts/record_demos.py, the while loop over codes of its parse_ansi_text:
\* the same chain with the 38 and 48 tests nested, and branches for 40..47
\* and 48;5
RECURSIVE DemosApplyCodes(_, _, _)
DemosApplyCodes(codes, k, st) ==
    IF k > Len(codes) \/ st.raised THEN st
    ELSE IF ~IsInt(codes[k]) THEN DemosApplyCodes(codes, k + 1, st)
    ELSE
      LET code == PyInt(codes[k])
          n == Len(codes)
          idxForm == k + 1 <= n /\ codes[k + 1] = <<"5">> /\ k + 2 <= n
          rgbForm == k + 1 <= n /\ codes[k + 1] = <<"2">> /\ k + 4 <= n
          rgbOk == IsInt(codes[k + 2]) /\ IsInt(codes[k + 3]) /\ IsInt(codes[k + 4])
          rgb == <<PyInt(codes[k + 2]), PyInt(codes[k + 3]), PyInt(codes[k + 4])>>
          ground == IF code = 38 THEN "fg" ELSE "bg"
      IN
      IF code \in {38, 48} THEN
          IF idxForm THEN
              IF IsInt(codes[k + 2])
              THEN DemosApplyCodes(codes, k + 3,
                       [st EXCEPT ![ground] = get_256_color(PyInt(codes[k + 2]))])
              ELSE [st EXCEPT !.raised = TRUE]
          ELSE IF rgbForm THEN
              IF rgbOk THEN DemosApplyCodes(codes, k + 5, [st EXCEPT ![ground] = rgb])
              ELSE [st EXCEPT !.raised = TRUE]
          ELSE DemosApplyCodes(codes, k + 1, st)
      ELSE IF code >= 40 /\ code <= 47
      THEN DemosApplyCodes(codes, k + 1, [st EXCEPT !.bg = BasicFg(code - 10)])
      ELSE DemosApplyCodes(codes, k + 1, ApplyCode(code, st))

\* scripts/record_demos.py, the finditer loop and the tail of parse_ansi_text
RECURSIVE DemosParseFrom(_, _, _, _)
DemosParseFrom(t, pos, st, segs) ==
    LET q == FindSgr(t, pos) IN
    IF st.raised THEN [segs |-> segs, st |-> st]
    ELSE IF q = 0 THEN
        [segs |-> IF pos <= Len(t) THEN Append(segs, Segment(SubSeq(t, pos, Len(t)), st))
                  ELSE segs,
         st |-> st]
    ELSE
        LET e == MatchEnd("sgr", t, q)
            segs2 == IF q > pos THEN Append(segs, Segment(SubSeq(t, pos, q - 1), st))
                     ELSE segs
            st2 == DemosApplyCodes(SgrCodes(SubSeq(t, q + 2, e - 2)), 1, st)
        IN  DemosParseFrom(t, e, st2, segs2)

\* (mutation of DemosParseAnsiText: the text starts in bold)
DemosParseAnsiTextBold(t) ==
    DemosParseFrom(t, 1, [DefaultStyle EXCEPT !.bold = TRUE], <<>>)

\* scripts/record_demos.py parse_ansi_text(t): [segs, st]
DemosParseAnsiText(t) == DemosParseFrom(t, 1, DefaultStyle, <<>>)

\* the line list render_to_image draws, or "raised" when int() failed on the way
FinalLines(t) ==
    LET r == ProcessTerminalSequences(t) IN
    IF r.raised THEN "raised"
    ELSE TrimTrailingBlank(SplitLines(CleanControl(r.out)))

----------------------------------------------------------------------------
(* Inputs of the text side *)

MaxFragments == 3

CursorVisibilityShow == <<ESC, "[", "?", "2", "5", "h">>
CursorSave == <<ESC, "[", "s">>
Unterminated == <<ESC, "[">>
LoneEsc == <<ESC>>

Fragments ==
    { <<"a">>, <<"b", "b">>, <<"a", LF>>, <<SP>>, <<CR>>, <<LF>>,
      <<ESC, "[", "A">>, <<ESC, "[", "0", "A">>, <<ESC, "[", "2", "A">>,
      <<ESC, "[", "2", "J">>, <<ESC, "[", "H">>, <<ESC, "[", "K">>,
      <<ESC, "[", "1", "m">>, <<ESC, "[", "0", "m">>,
      CursorSave, CursorVisibilityShow, Unterminated, LoneEsc }

FragmentLists == UNION { [1..n -> Fragments] : n \in 0..MaxFragments }

----------------------------------------------------------------------------
(* The capture side at rest (while the text side runs) and vice versa *)

CaptureIdle ==
    /\ pc = "idle" /\ master_open = FALSE /\ slave_open = FALSE
    /\ child = "none" /\ child_tty = FALSE /\ pending = <<>> /\ written = 0
    /\ output_buffer = <<>> /\ frames = <<>> /\ now = 0 /\ last_frame_time = 0
    /\ readable = FALSE /\ exc = FALSE /\ duration = 0 /\ frame_interval = 0
    /\ how = "none" /\ exited_in_sampling = FALSE /\ term_sent = FALSE

TextIdle ==
    /\ toks = <<>> /\ text = <<>> /\ i = 1 /\ lines = <<>> /\ current_line = <<>>
    /\ tpc = "idle" /\ out_text = <<>> /\ final_lines = <<>> /\ segments = <<>>

\* fixed_height=None; "if fixed_height:" takes None and 0 alike
NoHeight == 0

\* the locals of record_animated before anything is assigned
GifLocalsUnset ==
    /\ images = <<>> /\ target_height = 0 /\ max_width = 0 /\ normalized = <<>>
    /\ final_frames = <<>> /\ best_idx = 0 /\ warning = "none" /\ saved = FALSE

GifIdle ==
    /\ rpc = "idle" /\ fixed_height = NoHeight /\ GifLocalsUnset

ColorIdle ==
    /\ cpc = "idle" /\ color_idx = 0 /\ color_out = <<>>

----------------------------------------------------------------------------
(* render_to_image(text) as a state machine *)

Init ==
    /\ toks \in FragmentLists
    /\ text = Flatten(toks)
    /\ i = 1 /\ lines = <<>> /\ current_line = <<>>
    /\ tpc = "scan"
    /\ out_text = <<>> /\ final_lines = <<>> /\ segments = <<>>
    /\ CaptureIdle
    /\ GifIdle
    /\ ColorIdle

Scanning(b) == tpc = "scan" /\ i <= Len(text) /\ Branch(text, i) = b

TakeScanStep ==
    LET s == ScanStep(text, ScanState(i, lines, current_line, FALSE)) IN
    /\ i' = s.i /\ lines' = s.lines /\ current_line' = s.cur
    /\ tpc' = IF s.raised THEN "raised" ELSE "scan"
    /\ UNCHANGED <<toks, text, out_text, final_lines, segments>>
    /\ UNCHANGED <<capVars, gifVars, colVars>>

ScanCursorUp == Scanning("CursorUp") /\ TakeScanStep
ScanEraseDisplay == Scanning("EraseDisplay") /\ TakeScanStep
ScanCursorHome == Scanning("CursorHome") /\ TakeScanStep
ScanSgr == Scanning("Sgr") /\ TakeScanStep
ScanSkip == Scanning("Skip") /\ TakeScanStep
ScanUnknown == Scanning("Unknown") /\ TakeScanStep
ScanMalformed == Scanning("Malformed") /\ TakeScanStep
ScanCRLF == Scanning("CRLF") /\ TakeScanStep
ScanCR == Scanning("CR") /\ TakeScanStep
ScanLF == Scanning("LF") /\ TakeScanStep
ScanChar == Scanning("Char") /\ TakeScanStep

\* end of process_terminal_sequences
Finish ==
    /\ tpc = "scan" /\ i > Len(text)
    /\ lines' = FinishLines(lines, current_line)
    /\ out_text' = Join(lines')
    /\ tpc' = "clean"
    /\ UNCHANGED <<toks, text, i, current_line, final_lines, segments>>
    /\ UNCHANGED <<capVars, gifVars, colVars>>

\* the re.sub clean-ups, split('\n') and the trailing-blank trim
CleanSplit ==
    /\ tpc = "clean"
    /\ out_text' = CleanControl(out_text)
    /\ final_lines' = TrimTrailingBlank(SplitLines(out_text'))
    /\ tpc' = "parse"
    /\ UNCHANGED <<toks, text, i, lines, current_line, segments>>
    /\ UNCHANGED <<capVars, gifVars, colVars>>

\* the drawing loop: parse_ansi_text of every line
ParseLines ==
    /\ tpc = "parse"
    /\ segments' = [k \in DOMAIN final_lines |-> ParseAnsiText(final_lines[k])]
    /\ tpc' = IF \E k \in DOMAIN final_lines : segments'[k].st.raised
              THEN "raised" ELSE "done"
    /\ UNCHANGED <<toks, text, i, lines, current_line, out_text, final_lines>>
    /\ UNCHANGED <<capVars, gifVars, colVars>>

Next ==
    \/ ScanCursorUp \/ ScanEraseDisplay \/ ScanCursorHome \/ ScanSgr \/ ScanSkip
    \/ ScanUnknown \/ ScanMalformed \/ ScanCRLF \/ ScanCR \/ ScanLF \/ ScanChar
    \/ Finish \/ CleanSplit \/ ParseLines

Spec == Init /\ [][Next]_vars


----------------------------------------------------------------------------
(* Claims about the terminal state machine *)

PlainChars == {"a", "b", SP}
IsPlainRun(s) == \A k \in DOMAIN s : s[k] \in PlainChars

\* the scan state reached when the loop arrives at index stop (or passes it)
RECURSIVE ScanTo(_, _, _)
ScanTo(t, s, stop) ==
    IF s.raised \/ s.i >= stop \/ s.i > Len(t) THEN s ELSE ScanTo(t, ScanStep(t, s), stop)

\* W written over L from the start of the line, the longer one winning
Overwrite(L, W) == W \o SubSeq(L, Len(W) + 1, Len(L))

\* C1: after a bare carriage return, a run W of plain characters written
\* over the in-progress line L leaves W followed by L[len(W)..] in progress
\* ("AAAA\rBB" reads "BBAA").
C1_CarriageReturnLongestWins ==
    tpc = "scan" =>
        \A c \in 1..(i - 1) :
            LET atCr == ScanTo(text, ScanState(1, <<>>, <<>>, FALSE), c)
                W == SubSeq(text, c + 1, i - 1)
            IN  (/\ atCr.i = c /\ ~atCr.raised
                 /\ Branch(text, c) = "CR"
                 /\ IsPlainRun(atCr.cur)
                 /\ W # <<>> /\ IsPlainRun(W))
                => current_line = Overwrite(atCr.cur, W)

Max(a, b) == IF a >= b THEN a ELSE b

\* C2: CursorUp(n) finalizes a non-empty in-progress line and then keeps
\* exactly the first max(0, k - n) of the k completed lines, for every n >= 0
\* (n = 1 when the parameter is absent).
C2_CursorUpRemovesLastN ==
    [][ (Scanning("CursorUp") /\ tpc' = "scan") =>
          LET j == ParamEnd(text, i + 2)
              param_str == SubSeq(text, i + 2, j - 1)
              n == IF param_str = <<>> THEN 1 ELSE PyInt(param_str)
              before == FinishLines(lines, current_line)
          IN  /\ lines' = SubSeq(before, 1, Max(0, Len(before) - n))
              /\ current_line' = <<>> ]_vars

WellFormedFragments == Fragments \ {Unterminated}
IsWellFormed(ts) == \A k \in DOMAIN ts : ts[k] \in WellFormedFragments

\* the style parse_ansi_text attaches to a run of text
StyleOf(seg) ==
    [fg |-> seg.fg, bg |-> seg.bg, bold |-> seg.bold, italic |-> seg.italic,
     underline |-> seg.underline]

\* C3: the style changes only on SGR tokens: a newline, a bare carriage
\* return, CursorUp or EraseDisplay leaves it alone, so the last character of
\* a stream carries the fold of all SGR tokens of the stream.
C3_StyleOnlyChangesOnSgr ==
    (/\ tpc = "done" /\ IsWellFormed(toks)
     /\ text # <<>> /\ text[Len(text)] \in {"a", "b"})
    => /\ final_lines # <<>>
       /\ LET segs == segments[Len(final_lines)].segs IN
          /\ segs # <<>>
          /\ StyleOf(segs[Len(segs)]) = StyleOf(Segment(<<>>, ParseAnsiText(text).st))

NoOpFragments == {CursorSave, CursorVisibilityShow}
RemoveAt(ts, p) == SubSeq(ts, 1, p - 1) \o SubSeq(ts, p + 1, Len(ts))

\* C4: cursor visibility and save/restore sequences are no-ops: the stream
\* with one of them inserted finalizes to the same line list as without it.
C4_NoOpSequencesChangeNothing ==
    (tpc = "done" /\ IsWellFormed(toks)) =>
        \A p \in DOMAIN toks :
            toks[p] \in NoOpFragments
            => final_lines = FinalLines(Flatten(RemoveAt(toks, p)))


----------------------------------------------------------------------------
(* capture_frames_from_pty(cmd, duration, fps)                             *)
(*                                                                         *)
(* Time is counted in units of the select timeout of the sampling loop;    *)
(* start_time is 0.  The child, and whatever else holds the follower side  *)
(* of the pseudo-terminal, is the environment.                             *)

MaxDuration == 3      \* largest duration tried, in time units
MaxInterval == 2      \* largest frame interval (1 / fps) tried
MaxOut == 2           \* bytes the child side writes at most
ReadSize == 4096      \* os.read(master_fd, 4096)

\* bytes the child can write: two ASCII characters and the two bytes of a
\* two-byte UTF-8 character
Bytes == {"a", SP, "C3", "A9"}

\* data.decode('utf-8', errors='replace')
RECURSIVE Decode(_)
Decode(b) ==
    IF b = <<>> THEN <<>>
    ELSE IF b[1] = "C3" THEN
        (IF Len(b) >= 2 /\ b[2] = "A9"
         THEN <<"U+00E9">> \o Decode(SubSeq(b, 3, Len(b)))
         ELSE <<"U+FFFD">> \o Decode(Tail(b)))
    ELSE IF b[1] = "A9" THEN <<"U+FFFD">> \o Decode(Tail(b))
    ELSE <<b[1]>> \o Decode(Tail(b))

Min(a, b) == IF a <= b THEN a ELSE b

\* (mutation of AppendDecoded: the buffer restarts at every read)
ResetToDecoded(buf, data) == Decode(data)

\* output_buffer += data.decode(...)
AppendDecoded(buf, data) == buf \o Decode(data)

\* what frames.append records
FrameSnapshot(buf, frs) == buf

\* (mutation of AppendFrame: the snapshot is recorded whatever the buffer holds)
AppendFrameAlways(frs, buf) == Append(frs, FrameSnapshot(buf, frs))

\* if output_buffer.strip(): frames.append(output_buffer)
AppendFrame(frs, buf) == IF ~IsBlank(buf) THEN Append(frs, FrameSnapshot(buf, frs)) ELSE frs

\* the follower side is closed everywhere: reads of the leader fail or end
Hangup == ~slave_open /\ ~child_tty

\* (mutation of AfterClose: the finally block never terminates the child)
AfterCloseNoTerminate(c) == "return"

\* where the finally block goes after closing the leader
AfterClose(c) == IF c = "running" THEN "terminate" ELSE "return"

\* how the function ends
Outcome(e) == IF e THEN "raised" ELSE "done"

SamplingPcs == {"loop", "select", "read", "tick", "poll"}
DrainingPcs == {"drain_select", "drain_read", "final_frame"}
Ended == pc \in {"done", "raised"}

CaptureInit ==
    /\ TextIdle
    /\ GifIdle
    /\ ColorIdle
    /\ pc = "start"
    /\ duration \in 1..MaxDuration
    /\ frame_interval \in 1..MaxInterval
    /\ master_open = FALSE /\ slave_open = FALSE
    /\ child = "none" /\ child_tty = FALSE /\ pending = <<>> /\ written = 0
    /\ output_buffer = <<>> /\ frames = <<>> /\ now = 0 /\ last_frame_time = 0
    /\ readable = FALSE /\ exc = FALSE
    /\ how = "none" /\ exited_in_sampling = FALSE /\ term_sent = FALSE

\* master_fd, slave_fd = pty.openpty()
OpenPty ==
    /\ pc = "start"
    /\ master_open' = TRUE /\ slave_open' = TRUE
    /\ pc' = "spawn"
    /\ UNCHANGED <<child, child_tty, pending, written, output_buffer, frames, now,
                   last_frame_time, readable, exc, duration, frame_interval, how,
                   exited_in_sampling, term_sent>>
    /\ UNCHANGED <<textVars, gifVars, colVars>>

\* subprocess.Popen(...) succeeds
Spawn ==
    /\ pc = "spawn"
    /\ child' = "running" /\ child_tty' = TRUE
    /\ pc' = "close_slave"
    /\ UNCHANGED <<master_open, slave_open, pending, written, output_buffer, frames,
                   now, last_frame_time, readable, exc, duration, frame_interval, how,
                   exited_in_sampling, term_sent>>
    /\ UNCHANGED <<textVars, gifVars, colVars>>

\* subprocess.Popen(...) raises OSError: the function is left before the try
SpawnFail ==
    /\ pc = "spawn"
    /\ exc' = TRUE /\ how' = "spawn_failed"
    /\ pc' = "raised"
    /\ UNCHANGED <<master_open, slave_open, child, child_tty, pending, written,
                   output_buffer, frames, now, last_frame_time, readable, duration,
                   frame_interval, exited_in_sampling, term_sent>>
    /\ UNCHANGED <<textVars, gifVars, colVars>>

\* os.close(slave_fd); output_buffer = ""; start_time = last_frame_time = now
CloseSlave ==
    /\ pc = "close_slave"
    /\ slave_open' = FALSE
    /\ output_buffer' = <<>> /\ last_frame_time' = now
    /\ pc' = "loop"
    /\ UNCHANGED <<master_open, child, child_tty, pending, written, frames, now,
                   readable, exc, duration, frame_interval, how, exited_in_sampling,
                   term_sent>>
    /\ UNCHANGED <<textVars, gifVars, colVars>>

\* while time.time() - start_time < duration
LoopTest ==
    /\ pc = "loop"
    /\ IF now < duration
       THEN pc' = "select" /\ how' = how
       ELSE pc' = "finally" /\ how' = "timeout"
    /\ UNCHANGED <<master_open, slave_open, child, child_tty, pending, written,
                   output_buffer, frames, now, last_frame_time, readable, exc, duration,
                   frame_interval, exited_in_sampling, term_sent>>
    /\ UNCHANGED <<textVars, gifVars, colVars>>

\* select.select([master_fd], [], [], 0.05): returns at once when the leader
\* is readable, after the whole timeout otherwise
Select ==
    /\ pc = "select"
    /\ readable' = (pending # <<>> \/ Hangup)
    /\ IF readable' THEN now' \in {now, now + 1} ELSE now' = now + 1
    /\ pc' = "read"
    /\ UNCHANGED <<master_open, slave_open, child, child_tty, pending, written,
                   output_buffer, frames, last_frame_time, exc, duration,
                   frame_interval, how, exited_in_sampling, term_sent>>
    /\ UNCHANGED <<textVars, gifVars, colVars>>

\* if readable: false
ReadSkip ==
    /\ pc = "read" /\ ~readable
    /\ pc' = "tick"
    /\ UNCHANGED <<master_open, slave_open, child, child_tty, pending, written,
                   output_buffer, frames, now, last_frame_time, readable, exc, duration,
                   frame_interval, how, exited_in_sampling, term_sent>>
    /\ UNCHANGED <<textVars, gifVars, colVars>>

\* data = os.read(master_fd, 4096), non-empty
ReadData ==
    /\ pc = "read" /\ readable /\ pending # <<>>
    /\ LET n == Min(ReadSize, Len(pending)) IN
       /\ output_buffer' = AppendDecoded(output_buffer, SubSeq(pending, 1, n))
       /\ pending' = SubSeq(pending, n + 1, Len(pending))
    /\ pc' = "tick"
    /\ UNCHANGED <<master_open, slave_open, child, child_tty, written, frames, now,
                   last_frame_time, readable, exc, duration, frame_interval, how,
                   exited_in_sampling, term_sent>>
    /\ UNCHANGED <<textVars, gifVars, colVars>>

\* os.read returns b'' (end of file): nothing is appended
ReadEof ==
    /\ pc = "read" /\ readable /\ pending = <<>>
    /\ pc' = "tick"
    /\ UNCHANGED <<master_open, slave_open, child, child_tty, pending, written,
                   output_buffer, frames, now, last_frame_time, readable, exc, duration,
                   frame_interval, how, exited_in_sampling, term_sent>>
    /\ UNCHANGED <<textVars, gifVars, colVars>>

\* os.read raises OSError (EIO once the follower side is closed): break
ReadError ==
    /\ pc = "read" /\ readable /\ pending = <<>>
    /\ pc' = "finally" /\ how' = "ioerror"
    /\ UNCHANGED <<master_open, slave_open, child, child_tty, pending, written,
                   output_buffer, frames, now, last_frame_time, readable, exc, duration,
                   frame_interval, exited_in_sampling, term_sent>>
    /\ UNCHANGED <<textVars, gifVars, colVars>>

\* capture a frame at the interval
Tick ==
    /\ pc = "tick"
    /\ IF now - last_frame_time >= frame_interval
       THEN frames' = AppendFrame(frames, output_buffer) /\ last_frame_time' = now
       ELSE UNCHANGED <<frames, last_frame_time>>
    /\ pc' = "poll"
    /\ UNCHANGED <<master_open, slave_open, child, child_tty, pending, written,
                   output_buffer, now, readable, exc, duration, frame_interval, how,
                   exited_in_sampling, term_sent>>
    /\ UNCHANGED <<textVars, gifVars, colVars>>

\* proc.poll() is None: next iteration
PollAlive ==
    /\ pc = "poll" /\ child = "running"
    /\ pc' = "loop"
    /\ UNCHANGED <<master_open, slave_open, child, child_tty, pending, written,
                   output_buffer, frames, now, last_frame_time, readable, exc, duration,
                   frame_interval, how, exited_in_sampling, term_sent>>
    /\ UNCHANGED <<textVars, gifVars, colVars>>

\* proc.poll() is not None: the child is reaped, read the remaining output
PollExited ==
    /\ pc = "poll" /\ child = "exited"
    /\ child' = "reaped"
    /\ pc' = "drain_select" /\ how' = "childexit"
    /\ UNCHANGED <<master_open, slave_open, child_tty, pending, written, output_buffer,
                   frames, now, last_frame_time, readable, exc, duration, frame_interval,
                   exited_in_sampling, term_sent>>
    /\ UNCHANGED <<textVars, gifVars, colVars>>

\* select.select([master_fd], [], [], 0.1) in the drain loop
DrainSelect ==
    /\ pc = "drain_select"
    /\ readable' = (pending # <<>> \/ Hangup)
    /\ pc' = IF readable' THEN "drain_read" ELSE "final_frame"
    /\ UNCHANGED <<master_open, slave_open, child, child_tty, pending, written,
                   output_buffer, frames, now, last_frame_time, exc, duration,
                   frame_interval, how, exited_in_sampling, term_sent>>
    /\ UNCHANGED <<textVars, gifVars, colVars>>

\* data = os.read(master_fd, 4096), non-empty, in the drain loop
DrainRead ==
    /\ pc = "drain_read" /\ pending # <<>>
    /\ LET n == Min(ReadSize, Len(pending)) IN
       /\ output_buffer' = AppendDecoded(output_buffer, SubSeq(pending, 1, n))
       /\ pending' = SubSeq(pending, n + 1, Len(pending))
    /\ pc' = "drain_select"
    /\ UNCHANGED <<master_open, slave_open, child, child_tty, written, frames, now,
                   last_frame_time, readable, exc, duration, frame_interval, how,
                   exited_in_sampling, term_sent>>
    /\ UNCHANGED <<textVars, gifVars, colVars>>

\* os.read returns b'' (break) or raises OSError (pass): the drain loop ends
DrainEnd ==
    /\ pc = "drain_read" /\ pending = <<>>
    /\ pc' = "final_frame"
    /\ UNCHANGED <<master_open, slave_open, child, child_tty, pending, written,
                   output_buffer, frames, now, last_frame_time, readable, exc, duration,
                   frame_interval, how, exited_in_sampling, term_sent>>
    /\ UNCHANGED <<textVars, gifVars, colVars>>

\* add final frame; break
FinalFrame ==
    /\ pc = "final_frame"
    /\ frames' = AppendFrame(frames, output_buffer)
    /\ pc' = "finally"
    /\ UNCHANGED <<master_open, slave_open, child, child_tty, pending, written,
                   output_buffer, now, last_frame_time, readable, exc, duration,
                   frame_interval, how, exited_in_sampling, term_sent>>
    /\ UNCHANGED <<textVars, gifVars, colVars>>

\* an exception other than the OSError of os.read leaves the try body
Interrupt ==
    /\ pc \in SamplingPcs \cup DrainingPcs
    /\ exc' = TRUE /\ how' = "exception"
    /\ pc' = "finally"
    /\ UNCHANGED <<master_open, slave_open, child, child_tty, pending, written,
                   output_buffer, frames, now, last_frame_time, readable, duration,
                   frame_interval, exited_in_sampling, term_sent>>
    /\ UNCHANGED <<textVars, gifVars, colVars>>

\* finally: os.close(master_fd); if proc.poll() is None
CloseMaster ==
    /\ pc = "finally"
    /\ master_open' = FALSE /\ pending' = <<>>
    /\ child' = IF child = "exited" THEN "reaped" ELSE child
    /\ pc' = IF AfterClose(child) = "terminate" THEN "terminate" ELSE Outcome(exc)
    /\ UNCHANGED <<slave_open, child_tty, written, output_buffer, frames, now,
                   last_frame_time, readable, exc, duration, frame_interval, how,
                   exited_in_sampling, term_sent>>
    /\ UNCHANGED <<textVars, gifVars, colVars>>

\* proc.terminate()
Terminate ==
    /\ pc = "terminate"
    /\ term_sent' = TRUE
    /\ pc' = "wait"
    /\ UNCHANGED <<master_open, slave_open, child, child_tty, pending, written,
                   output_buffer, frames, now, last_frame_time, readable, exc, duration,
                   frame_interval, how, exited_in_sampling>>
    /\ UNCHANGED <<textVars, gifVars, colVars>>

\* proc.wait() returns once the child has exited
Wait ==
    /\ pc = "wait" /\ child = "exited"
    /\ child' = "reaped"
    /\ pc' = Outcome(exc)
    /\ UNCHANGED <<master_open, slave_open, child_tty, pending, written, output_buffer,
                   frames, now, last_frame_time, readable, exc, duration, frame_interval,
                   how, exited_in_sampling, term_sent>>
    /\ UNCHANGED <<textVars, gifVars, colVars>>

\* environment: the child side writes one byte to the terminal
ChildWrite ==
    /\ child_tty /\ master_open /\ written < MaxOut
    /\ \E b \in Bytes : pending' = Append(pending, b)
    /\ written' = written + 1
    /\ UNCHANGED <<pc, master_open, slave_open, child, child_tty, output_buffer, frames,
                   now, last_frame_time, readable, exc, duration, frame_interval, how,
                   exited_in_sampling, term_sent>>
    /\ UNCHANGED <<textVars, gifVars, colVars>>

\* environment: the child exits (on its own or on SIGTERM); a descendant may
\* keep the follower side open
ChildExit ==
    /\ child = "running"
    /\ child' = "exited"
    /\ \E keep \in BOOLEAN : child_tty' = (child_tty /\ keep)
    /\ exited_in_sampling' = (pc \in SamplingPcs)
    /\ UNCHANGED <<pc, master_open, slave_open, pending, written, output_buffer, frames,
                   now, last_frame_time, readable, exc, duration, frame_interval, how,
                   term_sent>>
    /\ UNCHANGED <<textVars, gifVars, colVars>>

\* environment: the last holder of the follower side closes it (while the
\* function runs)
TtyRelease ==
    /\ child_tty /\ ~Ended
    /\ child_tty' = FALSE
    /\ UNCHANGED <<pc, master_open, slave_open, child, pending, written, output_buffer,
                   frames, now, last_frame_time, readable, exc, duration, frame_interval,
                   how, exited_in_sampling, term_sent>>
    /\ UNCHANGED <<textVars, gifVars, colVars>>

CaptureNext ==
    \/ OpenPty \/ Spawn \/ SpawnFail \/ CloseSlave \/ LoopTest \/ Select
    \/ ReadSkip \/ ReadData \/ ReadEof \/ ReadError \/ Tick \/ PollAlive \/ PollExited
    \/ DrainSelect \/ DrainRead \/ DrainEnd \/ FinalFrame \/ Interrupt
    \/ CloseMaster \/ Terminate \/ Wait
    \/ ChildWrite \/ ChildExit \/ TtyRelease

CaptureSpec == CaptureInit /\ [][CaptureNext]_vars

\* the steps the function takes on its own, once what it waits for is there
PipelineStep ==
    \/ OpenPty \/ Spawn \/ CloseSlave \/ LoopTest \/ Select
    \/ ReadSkip \/ ReadData \/ ReadEof \/ ReadError \/ Tick \/ PollAlive \/ PollExited
    \/ DrainSelect \/ DrainRead \/ DrainEnd \/ FinalFrame
    \/ CloseMaster \/ Terminate \/ Wait

\* a select that returns at once takes no time unit, but not for ever
TimePasses == Select /\ now' = now + 1

\* the interpreter keeps executing the function and the clock keeps running;
\* nothing is assumed of the child
CaptureFairSpec ==
    CaptureInit /\ [][CaptureNext]_vars /\ WF_vars(PipelineStep) /\ SF_vars(TimePasses)


----------------------------------------------------------------------------
(* Claims about the capture pipeline *)

IsPrefix(a, b) == Len(a) <= Len(b) /\ SubSeq(b, 1, Len(a)) = a

\* the returned list ends with a frame holding the whole accumulated buffer
\* (when that buffer is not blank)
LastFrameIsBuffer ==
    ~IsBlank(output_buffer) => (frames # <<>> /\ frames[Len(frames)] = output_buffer)

\* C5: when the duration bound elapses while the child is still running, the
\* pipeline drains and appends a final frame, so the last frame returned is
\* the complete accumulated buffer.
C5_TimeoutAppendsFinalFrame ==
    (pc = "done" /\ how = "timeout" /\ term_sent) => LastFrameIsBuffer

\* C6: an I/O error on the leader during sampling raises nothing to the
\* caller and the returned list ends with a final frame holding everything
\* accumulated before the error.
C6_ReadErrorAppendsFinalFrame ==
    (Ended /\ how = "ioerror") => (pc = "done" /\ LastFrameIsBuffer)

\* C7: on every exit path, spawn failure and exceptions included, both
\* descriptors of the pseudo-terminal are closed and the child is waited on.
C7_ResourcesReleasedOnEveryPath ==
    Ended => (~master_open /\ ~slave_open /\ child \in {"none", "reaped"})

\* C8: when the child has exited during sampling (and the duration bound has
\* not cut the capture), the pipeline drains, appends a final frame and
\* returns a list whose last element is the complete buffer.
C8_ChildExitAppendsFinalFrame ==
    (pc = "done" /\ exited_in_sampling /\ how # "timeout") => LastFrameIsBuffer

\* C9: when the pipeline has ended, on every path, the child is not alive: a
\* child still running at the finally block was terminated and waited on.
C9_ChildNotAliveAtDone ==
    Ended => child \in {"none", "reaped"}

C9_Witness == pc = "done" /\ term_sent /\ child = "reaped" /\ how = "timeout"

\* C10: frames are complete-history snapshots in chronological order: every
\* earlier frame is a prefix of every later one.
C10_FramesArePrefixes ==
    \A a, b \in DOMAIN frames : a < b => IsPrefix(frames[a], frames[b])

C10_Witness ==
    pc = "done" /\ Len(frames) >= 2 /\ Len(frames[1]) < Len(frames[2])


\* C11: every frame recorded is non-blank: neither a cadence tick nor the
\* final frame appends a snapshot that is empty or only whitespace.
C11_FramesAreNonBlank ==
    \A k \in DOMAIN frames : ~IsBlank(frames[k])

\* a cadence tick has fired on a buffer holding only whitespace, and nothing
\* was recorded
C11_Witness ==
    /\ pc = "poll" /\ last_frame_time = now /\ now > 0
    /\ output_buffer # <<>> /\ IsBlank(output_buffer) /\ frames = <<>>


----------------------------------------------------------------------------
(* render_to_image: the canvas *)

Padding == 20
FontSize == 14
\* font.getbbox('M')[2] of the monospace font
CharWidth == 8
\* int(font_size * 1.5)
CharHeight == (FontSize * 15) \div 10

\* (mutation of VisibleLen: style sequences are counted as characters)
RawLen(line) == Len(line)

\* len(re.sub(r'\x1b\[[0-9;]*m', '', line))
VisibleLen(line) == Len(ReSub("sgr", line))

\* max(len(...) for line in lines) if lines else 0
RECURSIVE MaxChars(_)
MaxChars(ls) ==
    IF ls = <<>> THEN 0 ELSE Max(VisibleLen(Head(ls)), MaxChars(Tail(ls)))

\* the colours other than the background one segment puts on the canvas:
\* the rectangle when bg differs, the glyphs of a text that is not all
\* spaces, the underline
Ink(seg) ==
    ((IF seg.bg # DefaultBg THEN {seg.bg} ELSE {})
     \cup (IF seg.underline \/ \E k \in DOMAIN seg.text : seg.text[k] \notin Whitespace
           THEN {seg.fg} ELSE {}))
    \ {DefaultBg}

\* what the drawing loop does with one segment at column x: background
\* rectangle, text in the regular or the bold font, underline (italic is
\* unpacked and unused)
DrawOp(seg, x) ==
    [x |-> x, text |-> seg.text, fg |-> seg.fg, bg |-> seg.bg,
     bold |-> seg.bold, underline |-> seg.underline]

\* the segments of one line from the k-th on, x advancing by the text width;
\* a segment that changes no pixel leaves nothing on the canvas
RECURSIVE DrawLine(_, _, _)
DrawLine(segs, k, x) ==
    IF k > Len(segs) THEN <<>>
    ELSE (IF Ink(segs[k]) # {} THEN <<DrawOp(segs[k], x)>> ELSE <<>>)
         \o DrawLine(segs, k + 1, x + Len(segs[k].text) * CharWidth)

\* the pixel rows of a canvas: lines below the last one with ink are plain
\* background
RECURSIVE Pixels(_)
Pixels(rows) ==
    IF rows # <<>> /\ rows[Len(rows)] = <<>>
    THEN Pixels(SubSeq(rows, 1, Len(rows) - 1))
    ELSE rows

\* y of the top of the k-th line (1-based)
LineTop(k) == Padding + (k - 1) * CharHeight

\* render_to_image(text, width): the canvas as its size and, line by line,
\* what was drawn; raised when an int() call failed on the way
RenderToImage(t, width) ==
    LET r == ProcessTerminalSequences(t)
        ls == TrimTrailingBlank(SplitLines(CleanControl(r.out)))
        parsed == [k \in DOMAIN ls |-> ParseAnsiText(ls[k])]
    IN  IF r.raised \/ \E k \in DOMAIN ls : parsed[k].st.raised
        THEN [raised |-> TRUE, width |-> 0, height |-> 0, rows |-> <<>>]
        ELSE [raised |-> FALSE,
              width |-> Max(width, MaxChars(ls) * CharWidth + Padding * 2),
              height |-> Len(ls) * CharHeight + Padding + Padding,
              rows |-> Pixels([k \in DOMAIN ls |-> DrawLine(parsed[k].segs, 1, Padding)])]

\* set(img.getdata())
Colours(img) ==
    {DefaultBg} \cup UNION { UNION { Ink(img.rows[k][j]) : j \in DOMAIN img.rows[k] } :
                               k \in DOMAIN img.rows }

\* len(set(pixels)) > 1
HasContent(img) == Cardinality(Colours(img)) > 1

----------------------------------------------------------------------------
(* record_animated: normalisation, blank-prefix trim, sampling, palette *)

HeightCap == 300
MaxGifFrames == 60
PaletteWindow == 10

\* sorted(xs)[p] for a 0-based position p, xs a sequence of numbers
SortedAt(xs, p) ==
    CHOOSE h \in {xs[k] : k \in DOMAIN xs} :
        /\ Cardinality({k \in DOMAIN xs : xs[k] < h}) <= p
        /\ Cardinality({k \in DOMAIN xs : xs[k] <= h}) > p

\* (mutation of TargetHeight: the tallest frame decides)
TargetHeightTallest(fh, heights) ==
    IF fh # NoHeight THEN fh
    ELSE Min(SortedAt(heights, Len(heights) - 1), HeightCap)

\* fixed_height if truthy, else min(heights[len(heights) // 2], 300)
TargetHeight(fh, heights) ==
    IF fh # NoHeight THEN fh
    ELSE Min(SortedAt(heights, Len(heights) \div 2), HeightCap)

\* max(img.width for img in images)
MaxWidth(imgs) ==
    CHOOSE w \in {imgs[k].width : k \in DOMAIN imgs} :
        \A k \in DOMAIN imgs : imgs[k].width <= w

\* img.crop((0, 0, img.width, paste_height)): the lines whose top is inside
CropRows(img, paste_height) ==
    SubSeq(img.rows, 1,
           Cardinality({k \in DOMAIN img.rows : LineTop(k) < paste_height}))

\* a new canvas of the target size with the crop pasted top-left
NormalizeImage(img, mw, th) ==
    [raised |-> FALSE, width |-> mw, height |-> th,
     rows |-> Pixels(CropRows(img, Min(img.height, th)))]

\* (mutation of NonEmptyStart: nothing is skipped)
NonEmptyStartZero(norm) == 0

\* the index (0-based) of the first canvas with more than one colour, 0 if none
NonEmptyStart(norm) ==
    LET content == [k \in DOMAIN norm |-> HasContent(norm[k])] IN
    IF \E k \in DOMAIN norm : content[k]
    THEN (CHOOSE k \in DOMAIN norm :
            content[k] /\ \A j \in 1..(k - 1) : ~content[j]) - 1
    ELSE 0

\* s[start:] for a 0-based start
DropFirst(s, start) == SubSeq(s, start + 1, Len(s))

\* s[::step]
EveryNth(s, step) ==
    [j \in 1..((Len(s) + step - 1) \div step) |-> s[(j - 1) * step + 1]]

\* if len(normalized) > 60: normalized[::len(normalized) // 60] else normalized
SampleFrames(norm) ==
    IF Len(norm) > MaxGifFrames
    THEN EveryNth(norm, Len(norm) \div MaxGifFrames)
    ELSE norm

\* the first frame, among the first ten, with the most distinct colours (0-based)
BestIdx(ff) ==
    LET win == 1..Min(PaletteWindow, Len(ff))
        unique == [k \in win |-> Cardinality(Colours(ff[k]))]
    IN  (CHOOSE k \in win :
            /\ \A j \in win : unique[j] <= unique[k]
            /\ \A j \in 1..(k - 1) : unique[j] < unique[k]) - 1

----------------------------------------------------------------------------
(* Inputs of the batch side: what capture_frames_from_pty returned.  The
   child writes the chunks of a script one after the other; every frame is a
   snapshot of the buffer so far, the same snapshot being taken as many times
   as ticks passed before the next chunk arrived. *)

MaxShortRun == 3
DemoWidth == 50

HideCursor == <<ESC, "[", "?", "2", "5", "l">>
EraseDisplay2J == <<ESC, "[", "2", "J">>
BoldOn == <<ESC, "[", "1", "m">>
ResetSgr == <<ESC, "[", "0", "m">>
MultiParamCursorUp == <<ESC, "[", "1", ";", "2", "A">>
\* enough line feeds to put the "b" below the height cap
TallBlock == [k \in 1..(HeightCap \div CharHeight) |-> LF] \o <<"b">>

Scripts ==
    { << HideCursor, <<"a">>, <<LF, "b", "b">> >>,
      << HideCursor, <<"a">>, EraseDisplay2J >>,
      << HideCursor, BoldOn, ResetSgr >>,
      << <<"a">>, TallBlock, <<"b">> >>,
      << <<"a">>, EraseDisplay2J, <<"b">> >>,
      << <<"a">>, MultiParamCursorUp, <<"b">> >> }

RunLengths == (0..MaxShortRun) \cup {MaxGifFrames + 1}

\* the frames of a script: runs[k] snapshots of the buffer after k chunks
RECURSIVE FramesFrom(_, _, _)
FramesFrom(script, runs, k) ==
    IF k > Len(script) THEN <<>>
    ELSE [j \in 1..runs[k] |-> Flatten(SubSeq(script, 1, k))]
         \o FramesFrom(script, runs, k + 1)

FrameLists ==
    UNION { { FramesFrom(sc, runs, 1) : runs \in [DOMAIN sc -> RunLengths] } :
            sc \in Scripts }

FixedHeights == {NoHeight, LineTop(2), LineTop(3)}

----------------------------------------------------------------------------
(* record_animated as a state machine: one call from main's loop.  At
   "returned" control is back in main, which goes on to the next demo; at
   "raised" an exception is propagating, and main, which has no handler
   around the call, ends with it. *)

GifInit ==
    /\ TextIdle
    /\ ColorIdle
    /\ pc = "idle" /\ master_open = FALSE /\ slave_open = FALSE
    /\ child = "none" /\ child_tty = FALSE /\ pending = <<>> /\ written = 0
    /\ output_buffer = <<>> /\ now = 0 /\ last_frame_time = 0
    /\ readable = FALSE /\ exc = FALSE /\ duration = 0 /\ frame_interval = 0
    /\ how = "none" /\ exited_in_sampling = FALSE /\ term_sent = FALSE
    /\ frames \in FrameLists
    /\ fixed_height \in FixedHeights
    /\ rpc = "captured"
    /\ GifLocalsUnset

GifUnchanged ==
    UNCHANGED <<textVars, colVars, pc, master_open, slave_open, child, child_tty, pending,
                written, output_buffer, now, last_frame_time, readable, exc,
                duration, frame_interval, how, exited_in_sampling, term_sent>>

\* (mutation of NoFrames: the empty capture is not caught)
NoFramesUnchecked ==
    /\ rpc = "captured" /\ frames = <<>>
    /\ rpc' = "raised"
    /\ UNCHANGED <<frames, fixed_height, images, target_height, max_width,
                   normalized, final_frames, best_idx, warning, saved>>
    /\ GifUnchanged

\* if not frames: print warning; return
NoFrames ==
    /\ rpc = "captured" /\ frames = <<>>
    /\ warning' = "no_frames"
    /\ rpc' = "returned"
    /\ UNCHANGED <<frames, fixed_height, images, target_height, max_width,
                   normalized, final_frames, best_idx, saved>>
    /\ GifUnchanged

\* one canvas per distinct frame text
Rendered(frs) ==
    [t \in {frs[k] : k \in DOMAIN frs} |-> RenderToImage(t, DemoWidth)]

\* (mutation of RenderFrames: the text of the frame before is still in the
\* terminal when a frame is rendered)
RenderFramesCarrying ==
    /\ rpc = "captured" /\ frames # <<>>
    /\ LET img == Rendered(frames) IN
        /\ \A t \in DOMAIN img : ~img[t].raised
        /\ images' = [k \in DOMAIN frames |->
                         IF k > 1 /\ frames[k - 1] # frames[k]
                         THEN [img[frames[k]] EXCEPT !.rows = img[frames[k - 1]].rows \o @]
                         ELSE img[frames[k]]]
    /\ rpc' = "rendered"
    /\ UNCHANGED <<frames, fixed_height, target_height, max_width,
                   normalized, final_frames, best_idx, warning, saved>>
    /\ GifUnchanged

\* for frame_text in frames: images.append(render_to_image(frame_text, width))
RenderFrames ==
    /\ rpc = "captured" /\ frames # <<>>
    /\ LET img == Rendered(frames) IN
        /\ \A t \in DOMAIN img : ~img[t].raised
        /\ images' = [k \in DOMAIN frames |-> img[frames[k]]]
    /\ rpc' = "rendered"
    /\ UNCHANGED <<frames, fixed_height, target_height, max_width,
                   normalized, final_frames, best_idx, warning, saved>>
    /\ GifUnchanged

\* a ValueError leaves render_to_image, record_animated and main
RenderRaises ==
    /\ rpc = "captured" /\ frames # <<>>
    /\ LET img == Rendered(frames) IN \E t \in DOMAIN img : img[t].raised
    /\ rpc' = "raised"
    /\ UNCHANGED <<frames, fixed_height, images, target_height, max_width,
                   normalized, final_frames, best_idx, warning, saved>>
    /\ GifUnchanged

\* target_height, max_width and the canvases cropped or padded to them
Normalize ==
    /\ rpc = "rendered"
    /\ target_height' = TargetHeight(fixed_height,
                                     [k \in DOMAIN images |-> images[k].height])
    /\ max_width' = MaxWidth(images)
    /\ normalized' = [k \in DOMAIN images |->
                        NormalizeImage(images[k], max_width', target_height')]
    /\ rpc' = "normalized"
    /\ UNCHANGED <<frames, fixed_height, images, final_frames, best_idx,
                   warning, saved>>
    /\ GifUnchanged

\* normalized = normalized[non_empty_start:]; if not normalized: warn, return
TrimBlankPrefix ==
    /\ rpc = "normalized"
    /\ normalized' = DropFirst(normalized, NonEmptyStart(normalized))
    /\ IF normalized' = <<>>
       THEN warning' = "all_blank" /\ rpc' = "returned"
       ELSE warning' = warning /\ rpc' = "trimmed"
    /\ UNCHANGED <<frames, fixed_height, images, target_height, max_width,
                   final_frames, best_idx, saved>>
    /\ GifUnchanged

\* the sampling to about 60 frames
Sample ==
    /\ rpc = "trimmed"
    /\ final_frames' = SampleFrames(normalized)
    /\ rpc' = "sampled"
    /\ UNCHANGED <<frames, fixed_height, images, target_height, max_width,
                   normalized, best_idx, warning, saved>>
    /\ GifUnchanged

\* palette reference, quantize, gif_frames[0].save(...)
SaveGif ==
    /\ rpc = "sampled"
    /\ best_idx' = BestIdx(final_frames)
    /\ saved' = TRUE
    /\ rpc' = "returned"
    /\ UNCHANGED <<frames, fixed_height, images, target_height, max_width,
                   normalized, final_frames, warning>>
    /\ GifUnchanged

GifNext ==
    \/ NoFrames \/ RenderFrames \/ RenderRaises \/ Normalize \/ TrimBlankPrefix
    \/ Sample \/ SaveGif

GifSpec == GifInit /\ [][GifNext]_vars


----------------------------------------------------------------------------
(* Claims about record_animated *)

\* C12: the sequence handed to the encoder holds at most 60 frames, whatever
\* number of frames is left after the blank-prefix trim.
C12_AtMostSixtyFrames ==
    Len(final_frames) <= MaxGifFrames

\* every rendered canvas is a single solid colour
AllBlank == images # <<>> /\ \A k \in DOMAIN images : ~HasContent(images[k])

\* C13: when every captured frame renders to a blank canvas, the recording
\* warns, writes no artifact and raises nothing.
C13_AllBlankWritesNothing ==
    (rpc \in {"returned", "raised"} /\ AllBlank)
        => (rpc = "returned" /\ warning = "all_blank" /\ ~saved)

\* the first canvas of every run of identical canvases, in order
RECURSIVE Dedup(_)
Dedup(s) ==
    IF Len(s) <= 1 THEN s
    ELSE IF s[1] = s[2] THEN Dedup(Tail(s))
    ELSE <<s[1]>> \o Dedup(Tail(s))

\* C14: consecutive pixel-identical frames are collapsed to one: the sequence
\* handed to the encoder has no two adjacent identical canvases (stated for
\* recordings with at least three distinct runs, as in [F, F, G, G, G, H]).
C14_NoAdjacentDuplicates ==
    (saved /\ Len(Dedup(final_frames)) >= 3)
        => \A k \in 1..(Len(final_frames) - 1) : final_frames[k] # final_frames[k + 1]

\* C15: the blank-prefix trim drops exactly the leading single-colour
\* canvases: when some canvas has content, the trimmed sequence starts at the
\* first canvas with content and keeps every canvas from that one on, in
\* order, later blank ones included.
C15_TrimDropsExactlyBlankPrefix ==
    [][(rpc = "normalized" /\ rpc' # "normalized"
        /\ \E k \in DOMAIN normalized : HasContent(normalized[k]))
       => LET d == Len(normalized) - Len(normalized') IN
          /\ d >= 0
          /\ \A j \in 1..d : ~HasContent(normalized[j])
          /\ HasContent(normalized[d + 1])
          /\ normalized' = SubSeq(normalized, d + 1, Len(normalized))]_vars

\* a blank prefix was dropped and a blank canvas after the first one with
\* content was kept
C15_Witness ==
    /\ rpc = "trimmed" /\ Len(normalized) < Len(images)
    /\ HasContent(normalized[1])
    /\ \E k \in DOMAIN normalized : ~HasContent(normalized[k])

\* C16: when capture yields no frames, the recording warns and returns
\* normally, without an artifact and without raising, so main goes on.
C16_NoFramesReturnsNormally ==
    (frames = <<>> /\ rpc # "captured")
        => (rpc = "returned" /\ warning = "no_frames" /\ ~saved)

C16_Witness ==
    frames = <<>> /\ rpc = "returned" /\ warning = "no_frames"

\* what the r-th line of a canvas shows
RowAt(img, r) == IF r \in DOMAIN img.rows THEN img.rows[r] ELSE <<>>

\* m is a median of the numbers xs: at least half of them are <= m and at
\* least half are >= m
IsMedian(m, xs) ==
    /\ \E k \in DOMAIN xs : xs[k] = m
    /\ 2 * Cardinality({k \in DOMAIN xs : xs[k] <= m}) >= Len(xs)
    /\ 2 * Cardinality({k \in DOMAIN xs : xs[k] >= m}) >= Len(xs)

----------------------------------------------------------------------------
(* render_to_image on one SGR token followed by a character: the inputs are
   the parameter lists of the token *)

MaxParams == 5

SgrParams ==
    { <<>>, <<"1">>, <<"2">>, <<"5">>, <<"3", "8">>, <<"4", "8">> }

\* tokens with parameters outside SgrParams, or longer than MaxParams
ExtraParamLists ==
    { << <<"4", "1">> >>, << <<"4", "7">> >>,
      << <<"1">>, <<"0">> >>,
      << <<"4", "8">>, <<"5">>, <<"3", "1">> >>,
      << <<"3", "8">>, <<"5">>, <<"1">>, <<"3", "1">> >>,
      << <<"3", "8">>, <<"2">>, <<"3", "1">> >>,
      << <<"3", "8">>, <<"5">>, <<"3", "0", "0">> >>,
      << <<"3", "8">>, <<"2">>, <<"1">>, <<"2">>, <<"5">>, <<"1">> >> }

ParamLists == UNION { [1..n -> SgrParams] : n \in 1..MaxParams } \cup ExtraParamLists

\* ';'.join(ps)
RECURSIVE JoinSemi(_)
JoinSemi(ps) ==
    IF Len(ps) = 0 THEN <<>>
    ELSE IF Len(ps) = 1 THEN ps[1]
    ELSE ps[1] \o <<";">> \o JoinSemi(Tail(ps))

SgrToken(ps) == <<ESC, "[">> \o JoinSemi(ps) \o <<"m">>

SgrInit ==
    /\ toks \in { <<SgrToken(ps), <<"a">> >> : ps \in ParamLists }
    /\ text = Flatten(toks)
    /\ i = 1 /\ lines = <<>> /\ current_line = <<>>
    /\ tpc = "scan"
    /\ out_text = <<>> /\ final_lines = <<>> /\ segments = <<>>
    /\ CaptureIdle
    /\ GifIdle
    /\ ColorIdle

SgrNext == ScanSgr \/ ScanChar \/ Finish \/ CleanSplit \/ ParseLines

SgrSpec == SgrInit /\ [][SgrNext]_vars

----------------------------------------------------------------------------
(* One call of get_256_color(idx), for the indices 0..255 and a margin of
   integers on either side of them *)

ColorMargin == 2

ColorInit ==
    /\ TextIdle
    /\ CaptureIdle
    /\ GifIdle
    /\ cpc = "call"
    /\ color_idx \in (0 - 16 - ColorMargin)..(255 + ColorMargin)
    /\ color_out = <<>>

\* one of the three return statements is reached
ResolveReturns ==
    /\ cpc = "call" /\ ~IndexRaises(color_idx)
    /\ cpc' = "returned"
    /\ color_out' = get_256_color(color_idx)
    /\ UNCHANGED <<color_idx, textVars, capVars, gifVars>>

\* "return colors[idx]" raises IndexError
ResolveRaises ==
    /\ cpc = "call" /\ IndexRaises(color_idx)
    /\ cpc' = "raised"
    /\ UNCHANGED <<color_idx, color_out, textVars, capVars, gifVars>>

ColorNext == ResolveReturns \/ ResolveRaises

ColorSpec == ColorInit /\ [][ColorNext]_vars

----------------------------------------------------------------------------
(* Claims about malformed input and the SGR colour forms *)

\* C18: processing never raises: whatever the parameters of an SGR token
\* (empty, missing or unrecognized, also after 38;5, 38;2 and 48;2), the
\* parser returns a result and no error reaches the caller.
C18_NeverRaises ==
    tpc # "raised"

\* the start of the control sequence that runs to the end of t without a
\* terminator, 0 if there is none
UnterminatedStart(t) ==
    IF \E p \in DOMAIN t : IsCsi(t, p) /\ ParamEnd(t, p + 2) > Len(t)
    THEN CHOOSE p \in DOMAIN t : IsCsi(t, p) /\ ParamEnd(t, p + 2) > Len(t)
    ELSE 0

\* C19: a control sequence with no terminator before the end of the buffer
\* is emitted as literal text: every character of it, from the ESC to the
\* end of the buffer, is appended unchanged and in order to the in-progress
\* line.
C19_MalformedEmittedRaw ==
    (tpc = "scan" /\ i > Len(text) /\ UnterminatedStart(text) > 0)
        => LET p == UnterminatedStart(text)
               at == ScanTo(text, ScanState(1, <<>>, <<>>, FALSE), p)
           IN  (at.i = p /\ ~at.raised)
               => current_line = at.cur \o SubSeq(text, p, Len(text))

\* the parameters of the token the text starts with
TokenParams == SplitSemi(SubSeq(toks[1], 3, Len(toks[1]) - 1), 1, <<>>)

\* the style of the only segment drawn
DrawnStyle == StyleOf(segments[1].segs[1])

\* C20: 48;5;idx sets the background to the indexed colour and 48;2;r;g;b to
\* the truecolor triple; the foreground and the attributes stay as they were
\* and no consumed parameter acts as a code of its own.
C20_BackgroundColourForms ==
    (tpc = "done" /\ toks # <<>> /\ Len(TokenParams) >= 3
     /\ TokenParams[1] = <<"4", "8">>)
        => LET ps == TokenParams IN
           /\ (Len(ps) = 3 /\ ps[2] = <<"5">> /\ IsInt(ps[3]))
                => DrawnStyle = StyleOf(Segment(<<"a">>,
                       [DefaultStyle EXCEPT !.bg = get_256_color(PyInt(ps[3]))]))
           /\ (Len(ps) = 5 /\ ps[2] = <<"2">>
               /\ IsInt(ps[3]) /\ IsInt(ps[4]) /\ IsInt(ps[5]))
                => DrawnStyle = StyleOf(Segment(<<"a">>,
                       [DefaultStyle EXCEPT
                          !.bg = <<PyInt(ps[3]), PyInt(ps[4]), PyInt(ps[5])>>]))


\* C21: the codes 40..47 set the background to the colour the foreground
\* code c - 10 selects from the 16-colour table; the foreground and the
\* attributes stay as they were.
C21_BasicBackgroundCodes ==
    (tpc = "done" /\ toks # <<>> /\ Len(TokenParams) = 1 /\ IsInt(TokenParams[1])
     /\ PyInt(TokenParams[1]) \in 40..47)
        => DrawnStyle = StyleOf(Segment(<<"a">>,
               [DefaultStyle EXCEPT !.bg = BasicFg(PyInt(TokenParams[1]) - 10)]))


\* stand-alone codes whose effect is easy to tell: bold and red foreground
SimpleCodes == { <<"1">>, <<"3", "1">> }
AllSimple(ps) == \A k \in DOMAIN ps : ps[k] \in SimpleCodes

\* the style after setting the foreground to fgc and applying the simple
\* codes ps from left to right
AfterSimple(fgc, ps) ==
    [DefaultStyle EXCEPT
       !.fg = IF \E k \in DOMAIN ps : ps[k] = <<"3", "1">> THEN <<205, 49, 49>> ELSE fgc,
       !.bold = \E k \in DOMAIN ps : ps[k] = <<"1">>]

\* C22: 38;5;idx consumes two and 38;2;r;g;b four further parameters: the
\* foreground becomes the resolved colour, no consumed parameter acts as a
\* code of its own, and the parameters after them are applied in order.
C22_ForegroundColourForms ==
    (tpc = "done" /\ toks # <<>> /\ Len(TokenParams) >= 3
     /\ TokenParams[1] = <<"3", "8">>)
        => LET ps == TokenParams IN
           /\ (ps[2] = <<"5">> /\ IsInt(ps[3]) /\ AllSimple(SubSeq(ps, 4, Len(ps))))
                => DrawnStyle = StyleOf(Segment(<<"a">>,
                       AfterSimple(get_256_color(PyInt(ps[3])), SubSeq(ps, 4, Len(ps)))))
           /\ (ps[2] = <<"2">> /\ Len(ps) >= 5
               /\ IsInt(ps[3]) /\ IsInt(ps[4]) /\ IsInt(ps[5])
               /\ AllSimple(SubSeq(ps, 6, Len(ps))))
                => DrawnStyle = StyleOf(Segment(<<"a">>,
                       AfterSimple(<<PyInt(ps[3]), PyInt(ps[4]), PyInt(ps[5])>>,
                                   SubSeq(ps, 6, Len(ps)))))

\* 38;2;1;2;5;1 was applied: 2, 1, 2, 5 consumed, the last 1 sets bold
C22_Witness ==
    /\ tpc = "done" /\ toks # <<>>
    /\ TokenParams = << <<"3", "8">>, <<"2">>, <<"1">>, <<"2">>, <<"5">>, <<"1">> >>
    /\ DrawnStyle.fg = <<1, 2, 5>> /\ DrawnStyle.bold


\* a 38 or 48 token whose sub-form (5;idx or 2;r;g;b) lacks parameters
TooFewParams(ps) ==
    /\ Len(ps) >= 2 /\ ps[1] \in { <<"3", "8">>, <<"4", "8">> }
    /\ \/ ps[2] = <<"5">> /\ Len(ps) < 3
       \/ ps[2] = <<"2">> /\ Len(ps) < 5

IsRgb(c) == \A k \in 1..3 : c[k] \in 0..255

\* C23: after any SGR token the foreground and the background are RGB
\* triples with every channel in 0..255; a colour index or component out of
\* range, or a 38/48 sub-form with too few parameters, leaves the colour
\* state as it was and the leftover parameters are not applied as codes.
C23_ColoursStayValid ==
    (tpc = "done" /\ toks # <<>>)
        => /\ IsRgb(DrawnStyle.fg) /\ IsRgb(DrawnStyle.bg)
           /\ TooFewParams(TokenParams)
                => DrawnStyle = StyleOf(Segment(<<"a">>, DefaultStyle))


\* the text of line after a reset token that is followed by plain
\* characters only up to the end of the line; <<>> if there is none
TextAfterReset(line) ==
    IF \E q \in 1..(Len(line) - 4) :
          SubSeq(line, q, q + 3) = ResetSgr /\ IsPlainRun(SubSeq(line, q + 4, Len(line)))
    THEN LET q == CHOOSE q \in 1..(Len(line) - 4) :
                    /\ SubSeq(line, q, q + 3) = ResetSgr
                    /\ IsPlainRun(SubSeq(line, q + 4, Len(line)))
         IN  SubSeq(line, q + 4, Len(line))
    ELSE <<>>

\* C24: parameter 0 resets every attribute and both colours whatever came
\* before: the text that follows a reset is drawn with foreground
\* (229,229,229), background (30,30,46) and no bold, dim, italic, underline.
C24_ResetRestoresDefaults ==
    tpc = "done" =>
        \A k \in DOMAIN final_lines :
            LET run == TextAfterReset(final_lines[k])
                segs == segments[k].segs
            IN  run # <<>> =>
                  /\ segs # <<>>
                  /\ segs[Len(segs)] =
                       [text |-> run, fg |-> <<229, 229, 229>>, bg |-> <<30, 30, 46>>,
                        bold |-> FALSE, italic |-> FALSE, underline |-> FALSE]

\* "ESC[1m ESC[0m a" was parsed: bold, then reset, then text
C24_Witness ==
    /\ tpc = "done"
    /\ final_lines = << BoldOn \o ResetSgr \o <<"a">> >>


\* what a text without any escape sequence parses to: nothing when empty,
\* else the text itself as one segment in the default style
LiteralSegments(line) ==
    IF line = <<>> THEN <<>>
    ELSE << [text |-> line, fg |-> <<229, 229, 229>>, bg |-> <<30, 30, 46>>,
             bold |-> FALSE, italic |-> FALSE, underline |-> FALSE] >>

HasNoEscape(line) == \A k \in DOMAIN line : line[k] # ESC

\* C25: a text that holds no escape sequence parses to its own content,
\* character for character, in the default style and with nothing else; an
\* empty text parses to nothing (both parser variants).
C25_LiteralRoundTrip ==
    tpc = "done" =>
        \A k \in DOMAIN final_lines :
            HasNoEscape(final_lines[k]) =>
                /\ segments[k].segs = LiteralSegments(final_lines[k])
                /\ DemosParseAnsiText(final_lines[k]).segs = LiteralSegments(final_lines[k])

\* a literal line, an empty line and another literal line were parsed
C25_Witness ==
    /\ tpc = "done"
    /\ final_lines = << <<"a">>, <<>>, <<"b", "b">> >>


\* the 16-entry table of standard and bright colours
StandardTable ==
    << <<0, 0, 0>>, <<205, 49, 49>>, <<13, 188, 121>>, <<229, 229, 16>>,
       <<36, 114, 200>>, <<188, 63, 188>>, <<17, 168, 205>>, <<229, 229, 229>>,
       <<102, 102, 102>>, <<241, 76, 76>>, <<35, 209, 139>>, <<245, 245, 67>>,
       <<59, 142, 234>>, <<214, 112, 214>>, <<41, 184, 219>>, <<255, 255, 255>> >>

ThreeBranch(n) ==
    IF n \in 0..15 THEN StandardTable[n + 1]
    ELSE IF n \in 16..231 THEN
        <<((n - 16) \div 36) * 51, (((n - 16) \div 6) % 6) * 51, ((n - 16) % 6) * 51>>
    ELSE <<(n - 232) * 10 + 8, (n - 232) * 10 + 8, (n - 232) * 10 + 8>>

\* C26: for every index 0..255 the resolver returns the table entry (0..15),
\* the 6x6x6 cube value (16..231) or the grayscale value (232..255); the
\* boundaries 15/16 and 231/232 fall on the right sides and 196 is (255, 0, 0).
C26_ThreeBranchFormula ==
    (color_idx \in 0..255 /\ cpc # "call") =>
        /\ cpc = "returned"
        /\ color_out = ThreeBranch(color_idx)
        /\ color_idx = 15 => color_out = <<255, 255, 255>>
        /\ color_idx = 16 => color_out = <<0, 0, 0>>
        /\ color_idx = 231 => color_out = <<255, 255, 255>>
        /\ color_idx = 232 => color_out = <<8, 8, 8>>
        /\ color_idx = 196 => color_out = <<255, 0, 0>>

\* index 196 was resolved
C26_Witness ==
    cpc = "returned" /\ color_idx = 196 /\ color_out = <<255, 0, 0>>

\* C27: an index outside 0..255 is rejected with an error and no RGB value
\* is returned for it.
C27_OutOfRangeRejected ==
    (color_idx \notin 0..255 /\ cpc # "call") =>
        cpc = "raised" /\ color_out = <<>>


\* the text of a segment as the drawing loop uses it (the loop strips style
\* sequences from it once more)
DrawnText(seg) == ReSub("sgr", seg.text)

\* C28: no segment text handed to the drawing step contains an ESC
\* character, whatever sequences the stream holds.
C28_SegmentTextEscapeFree ==
    tpc = "done" =>
        \A k \in DOMAIN segments :
            \A j \in DOMAIN segments[k].segs :
                \A c \in DOMAIN DrawnText(segments[k].segs[j]) :
                    DrawnText(segments[k].segs[j])[c] # ESC


\* C29: at every step the completed-line list is a prefix of the previous
\* list with the in-progress line appended (so: unchanged, one line appended
\* at the end, or trailing lines removed, possibly all); no completed line is
\* modified in place, inserted in the middle or reordered.
C29_LinesAppendOnly ==
    [][IsPrefix(lines', Append(lines, current_line))]_vars

\* a cursor-up by one removed the second of two completed lines
C29_Witness ==
    /\ toks = << <<"a", LF>>, <<"a", LF>>, <<ESC, "[", "A">> >>
    /\ tpc = "scan" /\ i > Len(text)
    /\ lines = << <<"a">> >>


\* a line shows something: a character other than whitespace is left once
\* its style sequences are taken out
HasVisibleChar(line) ==
    \E k \in DOMAIN ReSub("sgr", line) : ReSub("sgr", line)[k] \notin Whitespace

\* C30: the finalized line list is empty or ends with a line that has a
\* visible non-whitespace character; a trailing line of whitespace and style
\* sequences only does not count toward the line count or the canvas height.
C30_LastLineVisible ==
    tpc \in {"parse", "done"} =>
        \/ final_lines = <<>>
        \/ HasVisibleChar(final_lines[Len(final_lines)])

----------------------------------------------------------------------------
(* Claims about segment runs, line terminators, erase and canvas size *)

\* C31: no two adjacent segments of a line carry equal style attributes: a
\* style sequence that leaves the attributes as they were does not split
\* the run of characters around it.
C31_SegmentsAreMaximalRuns ==
    tpc = "done" =>
        \A k \in DOMAIN segments :
            \A j \in 1..(Len(segments[k].segs) - 1) :
                StyleOf(segments[k].segs[j]) # StyleOf(segments[k].segs[j + 1])

\* t with the carriage return at p taken out
WithoutCharAt(t, p) == SubSeq(t, 1, p - 1) \o SubSeq(t, p + 1, Len(t))

\* C32: a carriage return immediately followed by a newline is one line
\* terminator: replacing an occurrence of CR LF in the stream by LF alone
\* yields the same finalized line list.
C32_CrLfIsOneTerminator ==
    tpc \in {"parse", "done"} =>
        \A p \in 1..(Len(text) - 1) :
            (text[p] = CR /\ text[p + 1] = LF
             /\ ~ProcessTerminalSequences(WithoutCharAt(text, p)).raised)
                => FinalLines(WithoutCharAt(text, p)) = final_lines

\* the stream after its k-th fragment
StreamAfter(k) == Flatten(SubSeq(toks, k + 1, Len(toks)))

\* C33: an erase-display with parameter 2 clears the completed lines and
\* the in-progress line: the finalized lines of P + ESC[2J + S are those of
\* S alone, whatever the prefix P wrote.
C33_EraseDisplayClearsAll ==
    tpc \in {"parse", "done"} =>
        \A k \in DOMAIN toks :
            toks[k] = EraseDisplay2J => final_lines = FinalLines(StreamAfter(k))

\* the characters of a line that are not part of a style sequence, counted
\* as the characters of its segments
CharCount(line) ==
    LET segs == ParseAnsiText(line).segs
    IN  Len(Flatten([j \in DOMAIN segs |-> segs[j].text]))

\* the greatest CharCount of a line list, 0 for the empty list
LongestLine(ls) ==
    LET counts == {CharCount(ls[k]) : k \in DOMAIN ls}
    IN  IF ls = <<>> THEN 0
        ELSE CHOOSE n \in counts : \A m \in counts : m <= n

\* C34: the canvas of a frame is max(minimum width, longest line's character
\* count * glyph width + 2 * padding) wide and line count * line height +
\* top padding + bottom padding high, the empty line list included; so it is
\* never narrower than the minimum width.
C34_CanvasDimensions ==
    rpc = "rendered" =>
        LET size == [t \in {frames[k] : k \in DOMAIN frames} |->
                        LET ls == FinalLines(t)
                        IN  [width |-> Max(DemoWidth, LongestLine(ls) * CharWidth + 2 * Padding),
                             height |-> Len(ls) * CharHeight + Padding + Padding]]
        IN  \A k \in DOMAIN images :
                /\ images[k].width = size[frames[k]].width
                /\ images[k].height = size[frames[k]].height
                /\ images[k].width >= DemoWidth

\* a frame with no line and a frame wider than the minimum were rendered
C34_Witness ==
    /\ rpc = "rendered"
    /\ \E k \in DOMAIN images : images[k].height = Padding + Padding
    /\ \E k \in DOMAIN images : images[k].width > DemoWidth

----------------------------------------------------------------------------
(* Claims about dim, frame independence and termination *)

\* a colour with each channel multiplied by 0.6 and truncated, once
ScaledOnce(c) == <<(c[1] * 3) \div 5, (c[2] * 3) \div 5, (c[3] * 3) \div 5>>

\* the token's parameters are dim codes around one indexed colour n
DimAroundColour(ps, n) ==
    \/ ps = << <<"2">>, <<"3", "8">>, <<"5">>, n >>
    \/ ps = << <<"3", "8">>, <<"5">>, n, <<"2">> >>
    \/ ps = << <<"2">>, <<"3", "8">>, <<"5">>, n, <<"2">> >>
    \/ ps = << <<"3", "8">>, <<"5">>, n, <<"2">>, <<"2">> >>

\* C35: dim is applied exactly once: a dim segment is drawn in the stored
\* foreground with each channel scaled once by 0.6, a further SGR 2 changes
\* nothing, and the stored foreground itself is not altered by dim (a colour
\* set before or after SGR 2 is scaled exactly once).
C35_DimAppliedOnce ==
    (tpc = "done" /\ toks # <<>>) =>
        LET ps == TokenParams
            st == segments[1].st
        IN  /\ DrawnStyle.fg = IF st.dim THEN ScaledOnce(st.fg) ELSE st.fg
            /\ st.dim =>
                 ParseAnsiText(SgrToken(<< <<"2">> >> \o ps) \o <<"a">>).segs
                     = segments[1].segs
            /\ \A n \in { <<"1">>, <<"2">>, <<"5">> } :
                 DimAroundColour(ps, n) =>
                     /\ st.fg = StandardTable[PyInt(n) + 1]
                     /\ DrawnStyle.fg = ScaledOnce(StandardTable[PyInt(n) + 1])

\* dim, then the indexed colour 1, then dim again: red is drawn scaled once
C35_Witness ==
    /\ tpc = "done" /\ toks # <<>>
    /\ TokenParams = << <<"2">>, <<"3", "8">>, <<"5">>, <<"1">>, <<"2">> >>
    /\ DrawnStyle.fg = <<123, 29, 29>>

C37_CaptureReturns == <>Ended

\* C38: every iteration of the scan loop moves the read index forward by at
\* least one character and never past the end of the text plus one (or ends
\* the loop by raising), also on a sequence with no terminator, a lone ESC
\* and consecutive carriage returns: the scan of a finite text ends.
C38_ScanAdvances ==
    [][(tpc = "scan" /\ i <= Len(text))
         => (tpc' = "raised" \/ (tpc' = "scan" /\ i' > i /\ i' <= Len(text) + 1))]_vars

\* the scan of a lone ESC, a carriage return and an unfinished sequence ended
C38_Witness ==
    /\ toks = << LoneEsc, <<CR>>, Unterminated >>
    /\ tpc = "clean" /\ i = Len(text) + 1

\* the index of the character that ends the run of digits and semicolons
\* starting at the third character of t, 0 if the run reaches the end of t
RunEnd(t) ==
    IF \E q \in 3..Len(t) : t[q] \notin ParamChars
    THEN CHOOSE q \in 3..Len(t) :
             t[q] \notin ParamChars /\ \A r \in 3..(q - 1) : t[r] \in ParamChars
    ELSE 0

\* t with every sequence ESC [ digits-and-semicolons m taken out
RECURSIVE WithoutSgr(_)
WithoutSgr(t) ==
    IF t = <<>> THEN <<>>
    ELSE IF Len(t) >= 3 /\ t[1] = ESC /\ t[2] = "[" /\ RunEnd(t) > 0 /\ t[RunEnd(t)] = "m"
    THEN WithoutSgr(SubSeq(t, RunEnd(t) + 1, Len(t)))
    ELSE <<t[1]>> \o WithoutSgr(Tail(t))

\* the segments are non-empty and their texts, in order, make up t
TextsMakeUp(segs, t) ==
    /\ \A j \in DOMAIN segs : segs[j].text # <<>>
    /\ Flatten([j \in DOMAIN segs |-> segs[j].text]) = t

\* C39: for every line on which it returns, the SGR parser (either variant)
\* emits only non-empty segments, in input order, whose texts concatenated
\* are the line with every SGR sequence removed: no literal character is
\* lost, duplicated or reordered.
C39_SegmentsKeepTheText ==
    tpc = "done" =>
        \A k \in DOMAIN final_lines :
            /\ TextsMakeUp(segments[k].segs, WithoutSgr(final_lines[k]))
            /\ LET d == DemosParseAnsiText(final_lines[k])
               IN  ~d.st.raised => TextsMakeUp(d.segs, WithoutSgr(final_lines[k]))

\* a line with text on both sides of a bold sequence was parsed
C39_Witness ==
    /\ tpc = "done"
    /\ final_lines = << <<"a">> \o BoldOn \o <<"b", "b">> >>
    /\ Len(segments[1].segs) = 2

----------------------------------------------------------------------------
(* The two variants of parse_ansi_text compared *)

\* the positions of ps read as codes of their own, the sub-parameters of a
\* 5;idx or 2;r;g;b form after 38 or 48 being skipped
RECURSIVE StandAlone(_, _)
StandAlone(ps, k) ==
    IF k > Len(ps) THEN {}
    ELSE IF ps[k] \in { <<"3", "8">>, <<"4", "8">> } /\ k + 2 <= Len(ps) /\ ps[k + 1] = <<"5">>
    THEN {k} \cup StandAlone(ps, k + 3)
    ELSE IF ps[k] \in { <<"3", "8">>, <<"4", "8">> } /\ k + 4 <= Len(ps) /\ ps[k + 1] = <<"2">>
    THEN {k} \cup StandAlone(ps, k + 5)
    ELSE {k} \cup StandAlone(ps, k + 1)

\* no stand-alone code 40..47 and no 48;5 form among the parameters
ForegroundAndAttributesOnly(ps) ==
    \A k \in StandAlone(ps, 1) :
        /\ ~(IsInt(ps[k]) /\ PyInt(ps[k]) \in 40..47)
        /\ ~(ps[k] = <<"4", "8">> /\ k + 1 <= Len(ps) /\ ps[k + 1] = <<"5">>)

\* C40: on a text whose SGR tokens hold no stand-alone code 40..47 and no
\* 48;5 form, parse_ansi_text of scripts/record_all.py and of
\* scripts/record_demos.py return the same segment list (texts, colours and
\* flags), and one raises exactly when the other does.
C40_ParserVariantsAgree ==
    (tpc \in {"done", "raised"} /\ toks # <<>> /\ final_lines # <<>>
     /\ ForegroundAndAttributesOnly(TokenParams))
        => LET d == DemosParseAnsiText(final_lines[1])
           IN  /\ d.st.raised = segments[1].st.raised
               /\ ~d.st.raised => d.segs = segments[1].segs

\* 48;2;1;2;5 was parsed: both variants draw on the background (1, 2, 5)
C40_Witness ==
    /\ tpc = "done" /\ toks # <<>>
    /\ TokenParams = << <<"4", "8">>, <<"2">>, <<"1">>, <<"2">>, <<"5">> >>
    /\ segments[1].segs[1].bg = <<1, 2, 5>>
    /\ DemosParseAnsiText(final_lines[1]).segs[1].bg = <<1, 2, 5>>

====
